---- MODULE Spec2Model ----
(***************************************************************************)
(* The ingestion pipeline of MBA: upload_file (services/s3_client.py)      *)
(* against an object store, and the JobQueue / Worker pair                 *)
(* (microservices/queue.py, microservices/worker.py).                      *)
(***************************************************************************)
EXTENDS Integers, Sequences, FiniteSets, TLC

\* ------------------------------------------------------------- bounds
MaxSize == 2        \* local and remote sizes range over 1..MaxSize
MaxRetries == 2     \* max_retries arguments: 1..MaxRetries and the default
MaxJobs == 2        \* how many jobs are ever put on the JobQueue
MaxMtime == 2       \* st_mtime of the scanned files ranges over 1..MaxMtime
MaxQueueSize == 1   \* JobQueue(maxsize) ranges over 0..MaxQueueSize
MaxBatches == 2     \* how many bulk_insert calls a run makes at most

\* ------------------------------------------------- program constants
DefaultMaxRetries == 3   \* upload_file(..., max_retries: int = 3, ...)
ConnectRetries == 3      \* connect(): max_retries = 3

\* The max_retries arguments of the calls: the small ones and the default.
RetryArgs == 1..MaxRetries \cup {DefaultMaxRetries}

Files == {"a.csv", "b.csv"}
Keys == {"mba/csv/a.csv", "mba/csv/b.csv"}
Sizes == 1..MaxSize

Uploaders == {"u1"}
Workers == {"w1", "w2"}
Clients == {"c1", "c2"}
PoolThreads == {"p1", "p2"}
Threads == Uploaders \cup Workers \cup PoolThreads
QThreads == Workers \cup Clients
JobIds == 1..MaxJobs

NoJob == [id |-> 0, path |-> "", s3_key |-> ""]
NoAcks == [dequeued |-> FALSE, task_done |-> 0, mark_failed |-> 0]
NoSnapshot == [queued |-> 0, processed |-> 0, failed |-> 0, total |-> 0]

\* What one call of s3_client.upload_file (boto3) can end in: no exception,
\* NoCredentialsError, a ClientError with its error code (InternalError
\* stands for every code that is not singled out), or any other exception.
ClientErrorCodes == {"AccessDenied", "NoSuchBucket", "InternalError"}
PutOutcomes == {"ok", "NoCredentialsError", "Exception"} \cup ClientErrorCodes

\* What head_object can end in: an answer (200 with the object's metadata,
\* or a ClientError with code "404"), a ClientError with another code, or
\* any other exception (network, SDK).
HeadFailures == {"ClientError", "Exception"}
HeadOutcomes == {"answered"} \cup HeadFailures

\* if error_code in ("AccessDenied", "NoSuchBucket"): raise, no retry
NoRetryCodes_OnlyBucket == {"NoSuchBucket"}
NoRetryCodes == {"AccessDenied", "NoSuchBucket"}

NoResult == [kind |-> "none", success |-> FALSE, message |-> ""]
NoCall ==
    [file |-> "", s3_key |-> "", max_retries |-> 0,
     check_duplicate |-> FALSE, overwrite |-> FALSE, unchanged |-> FALSE]
NoSeen == [looked |-> FALSE, exists |-> FALSE, s3_size |-> 0, local_size |-> 0]
NoPrev == [uploaded |-> FALSE, file |-> "", s3_key |-> ""]

VARIABLES
    local_files,   \* file -> st_size of the local file
    s3_objects,    \* the bucket: a function from the keys that exist to sizes
    pc,            \* thread -> where it is inside upload_file
    call,          \* thread -> the arguments of its upload_file call
    attempt,       \* thread -> the loop variable of upload_file
    puts,          \* thread -> the outcomes of this call's PUT attempts
    sleeps,        \* thread -> the time.sleep arguments of this call
    head_ok,       \* thread -> head_object of this call answered (200 or 404)
    seen,          \* thread -> the key and the file when the call looked
    result,        \* thread -> what the call returned or raised
    prev,          \* thread -> its last call, if that call uploaded the file
                   \* and the file has not been rewritten since the call began
    traced         \* the threads whose calls are logged in puts, sleeps,
                   \* head_ok and seen (the log is not program state)

VARIABLES
    queue,             \* JobQueue._queue: the jobs waiting, oldest first
    unfinished_tasks,  \* queue.Queue's own count of jobs not yet task_done
    lock,              \* JobQueue._lock: the thread holding it, or "free"
    processed_count,   \* JobQueue._processed_count
    failed_count,      \* JobQueue._failed_count
    total_put,         \* how many jobs were ever put
    qpc,               \* queue thread -> where it is in its loop
    job,               \* queue thread -> the job it holds
    success,           \* worker -> what process_job returned, as run tests it
    acks,              \* queue thread -> its task_done / mark_failed calls
                       \* for the job it dequeued last
    w_processed,       \* worker -> Worker.processed
    w_failed,          \* worker -> Worker.failed
    drain_once,        \* the drain_once argument of Worker.run
    handed,            \* job id -> how often get returned that job
    uploads,           \* job id -> how many upload_file calls were made for it
    spc,               \* where the thread calling stats() is
    snapshot           \* the dict stats() is building

VARIABLES
    disk,           \* scanned file -> its bytes and its st_mtime
    local_cache,    \* DuplicateDetector.local_cache: file -> entry
    cache_saved,    \* the JSON side-file holds local_cache as it stands
    before,         \* local_cache as the last scan found it
    hash_to_files,  \* what the last scan_local_directory returned
    scan_done       \* a scan has returned and the disk is as it scanned it

scanVars ==
    <<disk, local_cache, cache_saved, before, hash_to_files, scan_done>>

VARIABLES
    mpc,        \* where the main thread is in run_monolith / upload_batch
    files,      \* the list discover_files returned
    opts,       \* Uploader.skip_duplicates, .overwrite and .dry_run
    stats,      \* the dict upload_batch returned
    exit_code,  \* what run_monolith returned
    pending,    \* the submitted calls no pool thread has taken yet
    futures,    \* file -> the future of its upload_single call
    task,       \* pool thread -> the file of the call it is running
    bpc,        \* pool thread -> where it is in upload_single
    uploaded,   \* the counters and the list of upload_batch
    skipped,
    failed,
    results,
    counted     \* file -> the counter upload_batch added it to

mainVars == <<mpc, files, opts, stats, exit_code>>
poolVars == <<pending, futures, task, bpc>>
tallyVars == <<uploaded, skipped, failed, results, counted>>
batchVars == <<mainVars, poolVars, tallyVars>>

VARIABLES
    tree,       \* the input directory: its sub-directories and its files
    cli_args,   \* --scope, --include and --exclude of the command line
    ppc,        \* where the producer is in enqueue_files
    found,      \* the files of enqueue_files still to be enqueued
    job_count   \* job_count of enqueue_files

producerVars == <<tree, cli_args, ppc, found, job_count>>

VARIABLES
    maxsize,    \* JobQueue(maxsize): 0 for a queue without limit
    putting,    \* the path of the job a put call is holding, "" when none
    offered     \* thread -> the queue held a job at some moment of the
                \* get call the thread is in, or was last in

apiVars == <<maxsize, putting, offered>>

VARIABLES
    rpc,        \* where the main thread is in run_workers
    summary     \* the dict run_workers returned

runVars == <<rpc, summary>>

VARIABLES
    lpc,            \* where CsvToMySQLLoader.run is
    audit,          \* status of the run's row in ingestion_audit
    exc,            \* the exception that first occurred in processing,
                    \* the one run caught, and the one that left run
    written,        \* which updates of the audit row took effect
    rows_inserted,  \* rows_inserted of run
    target          \* the target table: whether it exists, and how many
                    \* batches of rows were committed to it

etlVars == <<lpc, audit, exc, written, rows_inserted, target>>
restVars == <<apiVars, runVars, etlVars>>
extraVars == <<scanVars, batchVars, producerVars, restVars>>

storeVars == <<local_files, s3_objects>>
uploadVars ==
    <<pc, call, attempt, puts, sleeps, head_ok, seen, result, prev, traced>>
counterVars == <<unfinished_tasks, processed_count, failed_count>>
workerVars == <<success, w_processed, w_failed, drain_once, uploads>>
statsVars == <<spc, snapshot>>
queueVars ==
    <<queue, lock, counterVars, total_put, qpc, job, acks, handed, workerVars,
      statsVars>>
vars == <<storeVars, uploadVars, queueVars, extraVars>>

\* ---------------------------------------------------------- the store

\* The existence check that lets an exception that is no ClientError out.
check_s3_file_exists_Raises(s3_key, head) ==
    CASE head = "answered" /\ s3_key \in DOMAIN s3_objects ->
            [raised |-> FALSE, exists |-> TRUE, size |-> s3_objects[s3_key]]
      [] head = "Exception" ->
            [raised |-> TRUE, exists |-> FALSE, size |-> 0]
      [] OTHER -> [raised |-> FALSE, exists |-> FALSE, size |-> 0]

\* check_s3_file_exists: (True, metadata) on a 200; (False, None) on a 404,
\* on every other ClientError and on every other exception. The client is
\* made from the session upload_file has just made its own client from.
check_s3_file_exists(s3_key, head) ==
    CASE head = "answered" /\ s3_key \in DOMAIN s3_objects ->
            [raised |-> FALSE, exists |-> TRUE, size |-> s3_objects[s3_key]]
      [] head = "answered" /\ s3_key \notin DOMAIN s3_objects ->
            [raised |-> FALSE, exists |-> FALSE, size |-> 0]
      [] head = "ClientError" ->
            [raised |-> FALSE, exists |-> FALSE, size |-> 0]
      [] head = "Exception" ->
            [raised |-> FALSE, exists |-> FALSE, size |-> 0]

\* The PUT that reports success and stores nothing.
PutObject_Lost(s3_key, size) == s3_objects
\* s3_client.upload_file succeeding: the object at the key is the local file.
PutObject(s3_key, size) ==
    [k \in DOMAIN s3_objects \cup {s3_key} |->
        IF k = s3_key THEN size ELSE s3_objects[k]]

\* The wait that does not grow.
Pow2_Flat(n) == 2

\* wait_seconds = 2**attempt
RECURSIVE Pow2(_)
Pow2(n) == IF n = 0 THEN 1 ELSE 2 * Pow2(n - 1)

\* The log entry of thread t in log variable v becomes x, if t is traced.
Logged(v, t, x) == IF t \in traced THEN [v EXCEPT ![t] = x] ELSE v

Returned(ok, msg) == [kind |-> "return", success |-> ok, message |-> msg]
Raised(msg) == [kind |-> "raise", success |-> FALSE, message |-> msg]

\* ------------------------------------------------------- upload_file

\* The state of the key and of the file when the call decides what to do.
Look(t) ==
    [looked |-> TRUE,
     exists |-> call[t].s3_key \in DOMAIN s3_objects,
     s3_size |-> IF call[t].s3_key \in DOMAIN s3_objects
                 THEN s3_objects[call[t].s3_key] ELSE 0,
     local_size |-> local_files[call[t].file]]

\* if check_duplicate and not overwrite:
NeedsDuplicateCheck(check_duplicate, overwrite) ==
    check_duplicate /\ ~overwrite

\* The reading of the object's size that drops it (a wrong metadata key).
SizeOf_Zero(metadata) == 0
\* s3_size = (s3_metadata or {}).get("size", 0)
SizeOf(metadata) == metadata.size

\* The comparison that takes every existing object for a duplicate.
SameSize_Always(local_size, s3_size) == TRUE
\* if local_size == s3_size:
SameSize(local_size, s3_size) == local_size = s3_size

\* The loop over range(1, max_retries), one attempt short.
EnterLoop_Short(t) ==
    IF call[t].max_retries > 1
    THEN /\ pc' = [pc EXCEPT ![t] = "put"]
         /\ attempt' = [attempt EXCEPT ![t] = 1]
         /\ result' = result
    ELSE /\ pc' = [pc EXCEPT ![t] = "done"]
         /\ attempt' = attempt
         /\ result' = [result EXCEPT
                ![t] = [kind |-> "return", success |-> FALSE,
                        message |-> "Upload failed after all retries"]]

\* Entering the for loop: range(1, max_retries + 1) is empty for
\* max_retries < 1 and the function falls through to its last line.
EnterLoop(t) ==
    IF call[t].max_retries >= 1
    THEN /\ pc' = [pc EXCEPT ![t] = "put"]
         /\ attempt' = [attempt EXCEPT ![t] = 1]
         /\ result' = result
    ELSE /\ pc' = [pc EXCEPT ![t] = "done"]
         /\ attempt' = attempt
         /\ result' = [result EXCEPT
                ![t] = Returned(FALSE, "Upload failed after all retries")]

\* A call starts: the arguments are bound.
BeginUpload(t, f, k, mr, cd, ow) ==
    /\ pc[t] = "idle"
    /\ pc' = [pc EXCEPT ![t] = "check"]
    /\ call' = [call EXCEPT
            ![t] = [file |-> f, s3_key |-> k, max_retries |-> mr,
                    check_duplicate |-> cd, overwrite |-> ow,
                    unchanged |-> TRUE]]
    /\ UNCHANGED <<storeVars, attempt, puts, sleeps, head_ok, seen, result,
                   prev, traced>>

\* if check_duplicate and not overwrite: HEAD, then compare the sizes.
CheckDuplicate(t, outcome) ==
    /\ pc[t] = "check"
    /\ NeedsDuplicateCheck(call[t].check_duplicate, call[t].overwrite)
    /\ head_ok' = Logged(head_ok, t, outcome = "answered")
    /\ seen' = Logged(seen, t, Look(t))
    /\ LET head == check_s3_file_exists(call[t].s3_key, outcome)
           local_size == local_files[call[t].file]
       IN  CASE head.raised ->
                  \* the call is outside every try of upload_file
                  /\ pc' = [pc EXCEPT ![t] = "done"]
                  /\ attempt' = attempt
                  /\ result' = [result EXCEPT ![t] = Raised(outcome)]
             [] head.exists /\ SameSize(local_size, SizeOf(head)) ->
                  /\ pc' = [pc EXCEPT ![t] = "done"]
                  /\ attempt' = attempt
                  /\ result' = [result EXCEPT
                         ![t] = Returned(TRUE, "Skipped (duplicate)")]
             [] head.exists /\ ~SameSize(local_size, SizeOf(head))
                  /\ ~call[t].overwrite ->
                  /\ pc' = [pc EXCEPT ![t] = "done"]
                  /\ attempt' = attempt
                  /\ result' = [result EXCEPT ![t] = Returned(FALSE,
                       "Exists with different size (use overwrite to replace)")]
             [] OTHER -> EnterLoop(t)
    /\ UNCHANGED <<storeVars, call, puts, sleeps, prev, traced>>

\* check_duplicate is off or overwrite is on: no HEAD.
NoDuplicateCheck(t) ==
    /\ pc[t] = "check"
    /\ ~NeedsDuplicateCheck(call[t].check_duplicate, call[t].overwrite)
    /\ seen' = Logged(seen, t, Look(t))
    /\ EnterLoop(t)
    /\ UNCHANGED <<storeVars, call, puts, sleeps, head_ok, prev, traced>>

\* The retry test that lets one attempt too many through.
RetryOrRaise_OneMore(t) ==
    IF attempt[t] <= call[t].max_retries
    THEN /\ pc' = [pc EXCEPT ![t] = "sleep"]
         /\ sleeps' = Logged(sleeps, t, Append(sleeps[t], Pow2(attempt[t])))
         /\ result' = result
    ELSE /\ pc' = [pc EXCEPT ![t] = "done"]
         /\ sleeps' = sleeps
         /\ result' = [result EXCEPT
                ![t] = [kind |-> "raise", success |-> FALSE,
                        message |-> "Upload failed"]]

\* A ClientError that is not AccessDenied / NoSuchBucket: sleep and go
\* round again while attempt < max_retries, else raise.
RetryOrRaise(t) ==
    IF attempt[t] < call[t].max_retries
    THEN /\ pc' = [pc EXCEPT ![t] = "sleep"]
         /\ sleeps' = Logged(sleeps, t, Append(sleeps[t], Pow2(attempt[t])))
         /\ result' = result
    ELSE /\ pc' = [pc EXCEPT ![t] = "done"]
         /\ sleeps' = sleeps
         /\ result' = [result EXCEPT ![t] = Raised("Upload failed")]

\* One pass of the loop body: the PUT and the except clause it lands in.
PutAttempt(t, outcome) ==
    /\ pc[t] = "put"
    /\ puts' = Logged(puts, t, Append(puts[t], outcome))
    /\ CASE outcome = "ok" ->
              /\ s3_objects' = PutObject(call[t].s3_key,
                                         local_files[call[t].file])
              /\ pc' = [pc EXCEPT ![t] = "done"]
              /\ result' = [result EXCEPT
                     ![t] = Returned(TRUE, "Uploaded successfully")]
              /\ sleeps' = sleeps
         [] outcome = "NoCredentialsError" ->
              /\ pc' = [pc EXCEPT ![t] = "done"]
              /\ result' = [result EXCEPT
                     ![t] = Raised("AWS credentials not found")]
              /\ UNCHANGED <<s3_objects, sleeps>>
         [] outcome \in ClientErrorCodes /\ outcome \in NoRetryCodes ->
              /\ pc' = [pc EXCEPT ![t] = "done"]
              /\ result' = [result EXCEPT ![t] = Raised(outcome)]
              /\ UNCHANGED <<s3_objects, sleeps>>
         [] outcome \in ClientErrorCodes /\ outcome \notin NoRetryCodes ->
              /\ RetryOrRaise(t)
              /\ UNCHANGED s3_objects
         [] outcome = "Exception" ->
              /\ pc' = [pc EXCEPT ![t] = "done"]
              /\ result' = [result EXCEPT ![t] = Raised("Unexpected error")]
              /\ UNCHANGED <<s3_objects, sleeps>>
    /\ UNCHANGED <<local_files, call, attempt, head_ok, seen, prev, traced>>

\* time.sleep(wait_seconds) ends; continue with the next attempt.
Backoff(t) ==
    /\ pc[t] = "sleep"
    /\ pc' = [pc EXCEPT ![t] = "put"]
    /\ attempt' = [attempt EXCEPT ![t] = @ + 1]
    /\ UNCHANGED <<storeVars, call, puts, sleeps, head_ok, seen, result, prev,
                   traced>>

\* The call's frame is gone once the caller has the outcome.
ClearCall(t) ==
    /\ call' = [call EXCEPT ![t] = NoCall]
    /\ attempt' = [attempt EXCEPT ![t] = 0]
    /\ puts' = [puts EXCEPT ![t] = <<>>]
    /\ sleeps' = [sleeps EXCEPT ![t] = <<>>]
    /\ head_ok' = [head_ok EXCEPT ![t] = FALSE]
    /\ seen' = [seen EXCEPT ![t] = NoSeen]
    /\ result' = [result EXCEPT ![t] = NoResult]

\* The caller has the outcome; the thread is free for its next call.
FinishUpload(t) ==
    /\ pc[t] = "done"
    /\ pc' = [pc EXCEPT ![t] = "idle"]
    /\ prev' = [prev EXCEPT ![t] =
            IF result[t] = Returned(TRUE, "Uploaded successfully")
               /\ call[t].unchanged
            THEN [uploaded |-> TRUE, file |-> call[t].file,
                  s3_key |-> call[t].s3_key]
            ELSE NoPrev]
    /\ ClearCall(t)
    /\ UNCHANGED <<storeVars, traced>>

\* The environment rewrites a local file: new bytes, of any size.
ModifyFile(f, size) ==
    /\ local_files' = [local_files EXCEPT ![f] = size]
    /\ call' = [t \in Threads |->
            IF call[t].file = f THEN [call[t] EXCEPT !.unchanged = FALSE]
            ELSE call[t]]
    /\ prev' = [t \in Threads |-> IF prev[t].file = f THEN NoPrev ELSE prev[t]]
    /\ UNCHANGED <<s3_objects, pc, attempt, puts, sleeps, head_ok, seen,
                   result, traced>>

\* ---------------------------------------------------------- JobQueue

\* settings.get_bucket(scope) and settings.get_prefix(scope)
get_bucket(scope) ==
    CASE scope = "mba" -> "memberbenefitassistant-bucket"
      [] scope = "policy" -> "policy-bucket"

get_prefix(scope) ==
    CASE scope = "mba" -> "mba/"
      [] scope = "policy" -> "policy/"

\* file_path.suffix.lower() of the file names of the model
suffix(name) ==
    CASE name \in {"a.csv", "b.csv", "c.csv", "Skipped.csv"} -> ".csv"
      [] name \in {"d.pdf"} -> ".pdf"
      [] name \in {"e.bin"} -> ".bin"
      [] OTHER -> ""

\* detect_file_type: FILE_TYPE_MAPPING.get(extension, "other")
detect_file_type(name) ==
    CASE suffix(name) = ".csv" -> "csv"
      [] suffix(name) = ".pdf" -> "pdf"
      [] OTHER -> "other"

\* build_s3_key(scope, file_path, prefix), auto_detect_type left True:
\* {prefix}/{type}/{file_path.name}
build_s3_key(scope, name, prefix) ==
    LET base_prefix == IF prefix # "" THEN prefix ELSE scope \o "/"
        slashed == IF base_prefix \in {"mba/", "policy/"} THEN base_prefix
                   ELSE base_prefix \o "/"
    IN  slashed \o detect_file_type(name) \o "/" \o name

\* The get that returns the oldest job and leaves it in the queue.
QueueGet_Peek(q) == [job |-> Head(q), rest |-> q]

\* queue.Queue.get on a queue that holds something: the oldest job leaves
\* the queue and is returned, in one step under the queue's mutex.
QueueGet(q) == [job |-> Head(q), rest |-> Tail(q)]

\* JobQueue.put: the job joins the queue (maxsize = 0, it never blocks).
Put(path) ==
    /\ total_put < MaxJobs
    /\ total_put' = total_put + 1
    /\ queue' = Append(queue, [id |-> total_put + 1, path |-> path,
                               s3_key |-> build_s3_key("mba", path,
                                                       get_prefix("mba"))])
    /\ unfinished_tasks' = unfinished_tasks + 1
    /\ UNCHANGED <<lock, processed_count, failed_count, qpc, job, acks,
                   handed, workerVars, statsVars>>

\* JobQueue.get returning a job.
Get(t) ==
    /\ qpc[t] = "get"
    /\ queue # <<>>
    /\ LET got == QueueGet(queue)
       IN  /\ queue' = got.rest
           /\ job' = [job EXCEPT ![t] = got.job]
           /\ handed' = [handed EXCEPT ![got.job.id] = @ + 1]
    /\ qpc' = [qpc EXCEPT ![t] = "got"]
    /\ acks' = [acks EXCEPT ![t] = [NoAcks EXCEPT !.dequeued = TRUE]]
    /\ UNCHANGED <<lock, counterVars, total_put, workerVars, statsVars>>

\* with self._lock: self._processed_count += 1, after _queue.task_done()
task_done(t) ==
    /\ lock = "free"
    /\ unfinished_tasks' = unfinished_tasks - 1
    /\ processed_count' = processed_count + 1
    /\ acks' = [acks EXCEPT ![t].task_done = @ + 1]
    /\ UNCHANGED failed_count

\* The mark_failed that takes the lock and counts nothing.
mark_failed_NoCount(t) ==
    /\ lock = "free"
    /\ acks' = [acks EXCEPT ![t].mark_failed = @ + 1]
    /\ UNCHANGED <<unfinished_tasks, processed_count, failed_count>>

\* with self._lock: self._failed_count += 1
mark_failed(t) ==
    /\ lock = "free"
    /\ failed_count' = failed_count + 1
    /\ acks' = [acks EXCEPT ![t].mark_failed = @ + 1]
    /\ UNCHANGED <<unfinished_tasks, processed_count>>

\* A caller that keeps the protocol: task_done for the job it holds ...
ClientTaskDone(c) ==
    /\ qpc[c] = "got"
    /\ task_done(c)
    /\ qpc' = [qpc EXCEPT ![c] = "get"]
    /\ job' = [job EXCEPT ![c] = NoJob]
    /\ UNCHANGED <<queue, lock, total_put, handed, workerVars, statsVars>>

\* ... or mark_failed for it, never both.
ClientMarkFailed(c) ==
    /\ qpc[c] = "got"
    /\ mark_failed(c)
    /\ qpc' = [qpc EXCEPT ![c] = "get"]
    /\ job' = [job EXCEPT ![c] = NoJob]
    /\ UNCHANGED <<queue, lock, total_put, handed, workerVars, statsVars>>

\* stats(): with self._lock:
StatsLock ==
    /\ spc = "idle"
    /\ lock = "free"
    /\ lock' = "stats"
    /\ spc' = "queued"
    /\ snapshot' = NoSnapshot
    /\ UNCHANGED <<queue, counterVars, total_put, qpc, job, acks, handed,
                   workerVars>>

\* The dict display, entry by entry: "queued": self.size(), then
\* "processed", then "failed", then "total", which calls self.size() again.
StatsRead ==
    /\ spc \in {"queued", "processed", "failed", "total"}
    /\ CASE spc = "queued" ->
              /\ snapshot' = [snapshot EXCEPT !.queued = Len(queue)]
              /\ spc' = "processed"
         [] spc = "processed" ->
              /\ snapshot' = [snapshot EXCEPT !.processed = processed_count]
              /\ spc' = "failed"
         [] spc = "failed" ->
              /\ snapshot' = [snapshot EXCEPT !.failed = failed_count]
              /\ spc' = "total"
         [] spc = "total" ->
              /\ snapshot' = [snapshot EXCEPT
                     !.total = processed_count + failed_count + Len(queue)]
              /\ spc' = "return"
    /\ UNCHANGED <<queue, lock, counterVars, total_put, qpc, job, acks,
                   handed, workerVars>>

\* The with block ends and stats() returns the dict.
StatsReturn ==
    /\ spc = "return"
    /\ lock' = "free"
    /\ spc' = "idle"
    /\ UNCHANGED <<queue, counterVars, total_put, qpc, job, acks, handed,
                   workerVars, snapshot>>

\* ------------------------------------------------------------ Worker

\* job_queue.get(timeout=1.0) returned None: the queue was empty when the
\* wait ran out.
\* The get that lets queue.Empty out.
GetOnEmpty_Raises == "raised"

\* JobQueue.get when Queue.get raised Empty: "except Empty: return None"
GetOnEmpty == "timedout"

\* job_queue.get(timeout=1.0): the queue is empty when the second is over.
WorkerGetNone(w) ==
    /\ qpc[w] = "get"
    /\ queue = <<>>
    /\ qpc' = [qpc EXCEPT ![w] = GetOnEmpty]
    /\ UNCHANGED <<queue, lock, counterVars, total_put, job, acks, handed,
                   workerVars, statsVars>>

\* The test that leaves the loop whenever the queue is empty.
WorkerCheckDrain_NoFlag(w) ==
    /\ qpc[w] = "timedout"
    /\ qpc' = [qpc EXCEPT ![w] = IF queue = <<>> THEN "exited" ELSE "get"]
    /\ UNCHANGED <<queue, lock, counterVars, total_put, job, acks, handed,
                   workerVars, statsVars>>

\* if drain_once and job_queue.is_empty(): break; else continue
WorkerCheckDrain(w) ==
    /\ qpc[w] = "timedout"
    /\ qpc' = [qpc EXCEPT ![w] =
            IF drain_once /\ queue = <<>> THEN "exited" ELSE "get"]
    /\ UNCHANGED <<queue, lock, counterVars, total_put, job, acks, handed,
                   workerVars, statsVars>>

\* process_job calls upload_file with the job's bucket, path and key and
\* the defaults max_retries=3, check_duplicate=True, overwrite=False.
WorkerProcessJob(w) ==
    /\ qpc[w] = "got"
    /\ BeginUpload(w, job[w].path, job[w].s3_key, DefaultMaxRetries, TRUE,
                   FALSE)
    /\ qpc' = [qpc EXCEPT ![w] = "uploading"]
    /\ uploads' = [uploads EXCEPT ![job[w].id] = @ + 1]
    /\ UNCHANGED <<queue, lock, counterVars, total_put, job, acks, handed,
                   success, w_processed, w_failed, drain_once, statsVars>>

\* What process_job hands back to run. upload_file returns a tuple
\* (bool, str), which "if success:" and "if not success:" take as true
\* whatever its first element is; an exception gives False.
process_job_value(res) == res.kind = "return"

\* process_job's bookkeeping once upload_file has returned or raised.
ProcessJobReturn(w) ==
    /\ qpc[w] = "uploading"
    /\ pc[w] = "done"
    /\ LET ok == process_job_value(result[w])
       IN  /\ success' = [success EXCEPT ![w] = ok]
           /\ w_processed' = [w_processed EXCEPT
                  ![w] = IF ok THEN @ + 1 ELSE @]
           /\ w_failed' = [w_failed EXCEPT ![w] = IF ok THEN @ ELSE @ + 1]
    /\ pc' = [pc EXCEPT ![w] = "idle"]
    /\ ClearCall(w)
    /\ qpc' = [qpc EXCEPT ![w] = "task_done"]
    /\ UNCHANGED <<storeVars, prev, traced, queue, lock, counterVars,
                   total_put, job, acks, handed, drain_once, uploads,
                   statsVars>>

\* job_queue.task_done(), for every job
WorkerTaskDone(w) ==
    /\ qpc[w] = "task_done"
    /\ task_done(w)
    /\ qpc' = [qpc EXCEPT ![w] = IF success[w] THEN "get" ELSE "mark_failed"]
    /\ job' = [job EXCEPT ![w] = IF success[w] THEN NoJob ELSE @]
    /\ UNCHANGED <<queue, lock, total_put, handed, workerVars, statsVars>>

\* if not success: job_queue.mark_failed()
WorkerMarkFailed(w) ==
    /\ qpc[w] = "mark_failed"
    /\ mark_failed(w)
    /\ qpc' = [qpc EXCEPT ![w] = "get"]
    /\ job' = [job EXCEPT ![w] = NoJob]
    /\ UNCHANGED <<queue, lock, total_put, handed, workerVars, statsVars>>

\* ------------------------------------------------- DuplicateDetector

\* The files of the scanned directory, and what a file can hold: "x" and
\* "y" have the same length, "zz" is longer.
DirFiles == {"a.csv", "b.csv", "c.csv"}
Contents == {"x", "y", "zz"}
Mtimes == 1..MaxMtime

\* The files that are rewritten and that can fail to be read; c.csv is
\* left as it is and stays readable.
Rewritable == {"a.csv", "b.csv"}

\* stat.st_size
st_size(content) == IF content = "zz" THEN 2 ELSE 1

\* hashlib.md5 over the bytes: equal for equal bytes, and taken to differ
\* for different bytes.
md5(content) ==
    CASE content = "x" -> "9dd4e461"
      [] content = "y" -> "41529076"
      [] content = "zz" -> "25ed1bcb"

\* calculate_file_hash: the hex digest, or "" when the file cannot be read.
calculate_file_hash(f, unreadable) ==
    IF f \in unreadable THEN "" ELSE md5(disk[f].content)

\* self.local_cache.get(file_key, {}) for a path the cache does not hold.
NoEntry == [present |-> FALSE, hash |-> "", size |-> 0, mtime |-> 0]

Stat(f) == [st_size |-> st_size(disk[f].content), st_mtime |-> disk[f].mtime]

\* The test that looks at the size only.
Trusted_SizeOnly(cached, stat) ==
    cached.present /\ cached.size = stat.st_size

\* if cached.get("size") == stat.st_size and
\*    cached.get("mtime") == stat.st_mtime:
\* ({}.get gives None, which equals no size and no mtime)
Trusted(cached, stat) ==
    /\ cached.present
    /\ cached.size = stat.st_size
    /\ cached.mtime = stat.st_mtime

\* The grouping that files every path under one digest.
Grouped_OneGroup(h2f, file_hash, f) ==
    LET h == IF DOMAIN h2f = {} THEN file_hash ELSE CHOOSE k \in DOMAIN h2f : TRUE
    IN  [k \in {h} |-> IF h \in DOMAIN h2f THEN Append(h2f[h], f) ELSE <<f>>]

\* hash_to_files.setdefault(file_hash, []).append(file_path)
Grouped(h2f, file_hash, f) ==
    [h \in DOMAIN h2f \cup {file_hash} |->
        IF h = file_hash
        THEN IF h \in DOMAIN h2f THEN Append(h2f[h], f) ELSE <<f>>
        ELSE h2f[h]]

\* The for loop of scan_local_directory over the files in listing order.
RECURSIVE ScanLoop(_, _, _, _)
ScanLoop(paths, cache, h2f, unreadable) ==
    IF paths = <<>>
    THEN [local_cache |-> cache, hash_to_files |-> h2f]
    ELSE LET f == Head(paths)
             stat == Stat(f)
             cached == cache[f]
             trusted == Trusted(cached, stat)
             file_hash == IF trusted THEN cached.hash
                          ELSE calculate_file_hash(f, unreadable)
             cache2 == IF trusted THEN cache
                       ELSE [cache EXCEPT ![f] =
                               [present |-> TRUE, hash |-> file_hash,
                                size |-> stat.st_size,
                                mtime |-> stat.st_mtime]]
             h2f2 == IF file_hash # "" THEN Grouped(h2f, file_hash, f)
                     ELSE h2f
         IN  ScanLoop(Tail(paths), cache2, h2f2, unreadable)

\* The orders in which rglob can list the directory.
Listings ==
    {o \in [1..Cardinality(DirFiles) -> DirFiles] :
        \A i, j \in DOMAIN o : i # j => o[i] # o[j]}

\* scan_local_directory: the loop, then _save_cache, which writes the
\* side-file or logs a warning.
scan_local_directory(listing, unreadable, save_ok) ==
    /\ ~scan_done
    /\ LET scan == ScanLoop(listing, local_cache, <<>>, unreadable)
       IN  /\ local_cache' = scan.local_cache
           /\ hash_to_files' = scan.hash_to_files
           /\ cache_saved' = (save_ok \/ (cache_saved
                                          /\ scan.local_cache = local_cache))
    /\ before' = local_cache
    /\ scan_done' = TRUE
    /\ UNCHANGED disk

\* The caller is done with what the scan returned.
ScanResultUsed ==
    /\ scan_done
    /\ scan_done' = FALSE
    /\ hash_to_files' = <<>>
    /\ before' = [f \in DirFiles |-> NoEntry]
    /\ UNCHANGED <<disk, local_cache, cache_saved>>

\* The environment rewrites a.csv or b.csv between two scans: any bytes,
\* any st_mtime.
RewriteFile(f, content, mtime) ==
    /\ ~scan_done
    /\ f \in Rewritable
    /\ disk' = [disk EXCEPT ![f] = [content |-> content, mtime |-> mtime]]
    /\ UNCHANGED <<local_cache, cache_saved, before, hash_to_files,
                   scan_done>>

\* DuplicateDetector() where no side-file exists yet: both caches empty.
InitDetectorOn(directory) ==
    /\ disk = directory
    /\ local_cache = [f \in DirFiles |-> NoEntry]
    /\ cache_saved = FALSE
    /\ before = [f \in DirFiles |-> NoEntry]
    /\ hash_to_files = <<>>
    /\ scan_done = FALSE

InitDetector ==
    InitDetectorOn([f \in DirFiles |->
        [content |-> IF f = "c.csv" THEN "zz" ELSE "x", mtime |-> 1]])

\* ---------------------------------------- Uploader and run_monolith

\* The files of a batch; the scope is given ("mba"), not detected.
BatchFiles == {"a.csv", "Skipped.csv"}
BatchScope == "mba"
BatchKeys ==
    {build_s3_key(BatchScope, f, get_prefix(BatchScope)) : f \in BatchFiles}

NoFuture ==
    [state |-> "none", kind |-> "none", success |-> FALSE, message |-> <<>>,
     upload |-> NoResult]
NoStats == [total |-> -1, uploaded |-> -1, skipped |-> -1, failed |-> -1]

\* A message is kept as the pieces its f-string joins; "x in message" for
\* a word x holds when a piece holds x.
HasWord(piece, word) ==
    /\ word = "Skipped"
    /\ piece \in {"Skipped - already in S3: ", "Skipped (duplicate)",
                  "mba/csv/Skipped.csv"}

Contains(message, word) ==
    \E i \in 1..Len(message) : HasWord(message[i], word)

\* The PUT outcomes met in a batch: success, an error that is not retried
\* and one that is.
BatchPutOutcomes == {"ok", "AccessDenied", "InternalError"}

\* The orders in which discover_files can list the directory.
BatchListings ==
    {o \in [1..Cardinality(BatchFiles) -> BatchFiles] :
        \A i, j \in DOMAIN o : i # j => o[i] # o[j]}

\* run_monolith: discover_files. It returns the files, or none (return 0),
\* or raises FileDiscoveryError (return 1).
Discover(outcome, listing) ==
    /\ mpc = "start"
    /\ CASE outcome = "found" ->
              /\ files' = listing
              /\ mpc' = "uploader"
              /\ exit_code' = exit_code
         [] outcome = "nothing" ->
              /\ files' = <<>>
              /\ mpc' = "no_files"
              /\ exit_code' = 0
         [] outcome = "FileDiscoveryError" ->
              /\ files' = files
              /\ mpc' = "error"
              /\ exit_code' = 1
    /\ UNCHANGED <<opts, stats, poolVars, tallyVars>>

\* uploader = Uploader(...): build_session, which is called unless this
\* is a dry run, may raise (return 1).
CreateUploader(outcome) ==
    /\ mpc = "uploader"
    /\ outcome = "raise" => ~opts.dry_run
    /\ IF outcome = "ok"
       THEN mpc' = "batch" /\ exit_code' = exit_code
       ELSE mpc' = "error" /\ exit_code' = 1
    /\ UNCHANGED <<files, opts, stats, poolVars, tallyVars>>

\* upload_batch up to the submits: the counters, the scan of the input
\* directory when skip_duplicates is on (an exception of the scan or of
\* the report leaves upload_batch, and run_monolith returns 1), then one
\* future per file.
UploadBatchSubmit(outcome) ==
    /\ mpc = "batch"
    /\ IF opts.skip_duplicates /\ outcome = "raise"
       THEN /\ mpc' = "error"
            /\ exit_code' = 1
            /\ UNCHANGED <<pending, futures>>
       ELSE /\ mpc' = "collect"
            /\ exit_code' = exit_code
            /\ pending' = files
            /\ futures' = [f \in BatchFiles |->
                             [NoFuture EXCEPT !.state = "pending"]]
    /\ uploaded' = 0
    /\ skipped' = 0
    /\ failed' = 0
    /\ results' = <<>>
    /\ UNCHANGED <<files, opts, stats, task, bpc, counted>>

\* A pool thread takes the next submitted call.
TakeTask(t) ==
    /\ bpc[t] = "idle"
    /\ pending # <<>>
    /\ task' = [task EXCEPT ![t] = Head(pending)]
    /\ pending' = Tail(pending)
    /\ futures' = [futures EXCEPT ![Head(pending)].state = "running"]
    /\ bpc' = [bpc EXCEPT ![t] = "start"]
    /\ UNCHANGED <<mainVars, tallyVars>>

\* The upload_file call of upload_single, with the Uploader's options and
\* the default max_retries.
SingleUpload(t) ==
    BeginUpload(t, task[t],
                build_s3_key(BatchScope, task[t], get_prefix(BatchScope)),
                DefaultMaxRetries, opts.skip_duplicates, opts.overwrite)

\* An exception leaves upload_single: the future holds it.
FutureRaised(t, what) ==
    /\ futures' = [futures EXCEPT ![task[t]] =
            [state |-> "done", kind |-> "raise", success |-> FALSE,
             message |-> <<what>>, upload |-> NoResult]]
    /\ task' = [task EXCEPT ![t] = ""]
    /\ bpc' = [bpc EXCEPT ![t] = "idle"]

\* upload_single up to the scan: scope, bucket, prefix and key; then, with
\* skip_duplicates on, check_local_duplicate hashes the file (no digest:
\* it returns at once) and calls scan_local_directory. None of this is
\* inside a try: an exception leaves upload_single.
SingleStart(t, outcome) ==
    /\ bpc[t] = "start"
    /\ opts.skip_duplicates /\ ~opts.dry_run
    /\ CASE outcome = "scan" ->
              /\ bpc' = [bpc EXCEPT ![t] = "cache"]
              /\ UNCHANGED <<futures, task, uploadVars>>
         [] outcome = "unreadable" ->
              /\ SingleUpload(t)
              /\ bpc' = [bpc EXCEPT ![t] = "upload"]
              /\ UNCHANGED <<futures, task>>
         [] outcome = "raise" ->
              /\ FutureRaised(t, "OSError")
              /\ UNCHANGED uploadVars
    /\ UNCHANGED <<storeVars, mainVars, pending, tallyVars>>

\* upload_single with skip_duplicates off: straight to upload_file.
SingleStartNoScan(t) ==
    /\ bpc[t] = "start"
    /\ ~opts.skip_duplicates /\ ~opts.dry_run
    /\ SingleUpload(t)
    /\ bpc' = [bpc EXCEPT ![t] = "upload"]
    /\ UNCHANGED <<mainVars, pending, futures, task, tallyVars>>

\* The Uploader that has a session in a dry run too.
HasSession_Always(o) == TRUE

\* self.session: build_session(...) if not dry_run, else None
HasSession(o) == ~o.dry_run

\* upload_single in a dry run: no local duplicate check; the existence
\* check is made only "if self.session and self.skip_duplicates"; the
\* tuple says what would be done.
SingleDryRun(t, head) ==
    /\ bpc[t] = "start"
    /\ opts.dry_run
    /\ LET s3_key == build_s3_key(BatchScope, task[t], get_prefix(BatchScope))
           checks == HasSession(opts) /\ opts.skip_duplicates
           r == check_s3_file_exists(s3_key, head)
           message ==
               IF checks /\ r.exists /\ ~opts.overwrite
               THEN <<"Would skip (already exists)">>
               ELSE <<"s3://", get_bucket(BatchScope), "/", s3_key>>
       IN  /\ seen' = IF checks
                      THEN [seen EXCEPT ![t] =
                              [looked |-> TRUE, exists |-> r.exists,
                               s3_size |-> r.size,
                               local_size |-> local_files[task[t]]]]
                      ELSE seen
           /\ futures' = [futures EXCEPT ![task[t]] =
                   [state |-> "done", kind |-> "return", success |-> TRUE,
                    message |-> message, upload |-> NoResult]]
    /\ task' = [task EXCEPT ![t] = ""]
    /\ bpc' = [bpc EXCEPT ![t] = "idle"]
    /\ UNCHANGED <<storeVars, pc, call, attempt, puts, sleeps, head_ok,
                   result, prev, traced, mainVars, pending, tallyVars>>

\* scan_local_directory on the pool thread: the loop over the files, which
\* reads and writes self.local_cache, is over; _save_cache begins. No lock
\* is taken here or in the callers.
SingleScanned(t) ==
    /\ bpc[t] = "cache"
    /\ bpc' = [bpc EXCEPT ![t] = "save"]
    /\ UNCHANGED <<mainVars, pending, futures, task, tallyVars>>

\* _save_cache has written the side-file (or logged that it could not);
\* check_local_duplicate returns and upload_single calls upload_file.
SingleSaved(t) ==
    /\ bpc[t] = "save"
    /\ SingleUpload(t)
    /\ bpc' = [bpc EXCEPT ![t] = "upload"]
    /\ UNCHANGED <<mainVars, pending, futures, task, tallyVars>>

\* What upload_single returns for what upload_file returned or raised.
SingleResult(res, bucket, s3_key) ==
    CASE res.kind = "return" /\ res.success
              /\ res.message = "Skipped (duplicate)" ->
            [success |-> TRUE,
             message |-> <<"Skipped - already in S3: ", s3_key>>]
      [] res.kind = "return" /\ res.success
              /\ res.message # "Skipped (duplicate)" ->
            [success |-> TRUE,
             message |-> <<"Uploaded to s3://", bucket, "/", s3_key>>]
      [] res.kind = "return" /\ ~res.success ->
            [success |-> FALSE, message |-> <<res.message>>]
      [] res.kind = "raise" ->
            [success |-> FALSE, message |-> <<"Error: ", res.message>>]

\* upload_file has returned or raised; upload_single returns its tuple.
SingleReturn(t) ==
    /\ bpc[t] = "upload"
    /\ pc[t] = "done"
    /\ LET ret == SingleResult(result[t], get_bucket(BatchScope),
                               call[t].s3_key)
       IN  futures' = [futures EXCEPT ![task[t]] =
               [state |-> "done", kind |-> "return",
                success |-> ret.success, message |-> ret.message,
                upload |-> result[t]]]
    /\ task' = [task EXCEPT ![t] = ""]
    /\ bpc' = [bpc EXCEPT ![t] = "idle"]
    /\ pc' = [pc EXCEPT ![t] = "idle"]
    /\ ClearCall(t)
    /\ UNCHANGED <<storeVars, prev, traced, mainVars, pending, tallyVars>>

\* The loop body that lets the exception of a future out of upload_batch.
Collect_NoCatch(f) ==
    /\ mpc = "collect"
    /\ futures[f].state = "done"
    /\ futures' = [futures EXCEPT ![f].state = "collected"]
    /\ IF futures[f].kind = "raise"
       THEN /\ mpc' = "error"
            /\ exit_code' = 1
            /\ UNCHANGED <<uploaded, skipped, failed, results, counted>>
       ELSE /\ UNCHANGED <<mpc, exit_code, uploaded, skipped>>
            /\ failed' = failed + 1
            /\ results' = Append(results, [path |-> f, success |-> FALSE])
            /\ counted' = [counted EXCEPT ![f] = "failed"]
    /\ UNCHANGED <<files, opts, stats, pending, task, bpc>>

\* The loop body whose except clause leaves the file out of results.
Collect_NoEntry(f) ==
    /\ mpc = "collect"
    /\ futures[f].state = "done"
    /\ futures' = [futures EXCEPT ![f].state = "collected"]
    /\ LET fut == futures[f]
           class == CASE fut.kind = "raise" -> "failed"
                      [] fut.kind = "return" /\ ~fut.success -> "failed"
                      [] fut.kind = "return" /\ fut.success
                            /\ Contains(fut.message, "Skipped") -> "skipped"
                      [] OTHER -> "uploaded"
       IN  /\ uploaded' = IF class = "uploaded" THEN uploaded + 1 ELSE uploaded
           /\ skipped' = IF class = "skipped" THEN skipped + 1 ELSE skipped
           /\ failed' = IF class = "failed" THEN failed + 1 ELSE failed
           /\ results' = IF fut.kind = "raise" THEN results
                         ELSE Append(results,
                                     [path |-> f, success |-> fut.success])
           /\ counted' = [counted EXCEPT ![f] = class]
    /\ UNCHANGED <<mainVars, pending, task, bpc>>

\* for future in as_completed(futures): the result is appended and
\* counted; "except Exception" counts the file as failed.
Collect(f) ==
    /\ mpc = "collect"
    /\ futures[f].state = "done"
    /\ futures' = [futures EXCEPT ![f].state = "collected"]
    /\ LET fut == futures[f]
           class == CASE fut.kind = "raise" -> "failed"
                      [] fut.kind = "return" /\ ~fut.success -> "failed"
                      [] fut.kind = "return" /\ fut.success
                            /\ Contains(fut.message, "Skipped") -> "skipped"
                      [] OTHER -> "uploaded"
       IN  /\ uploaded' = IF class = "uploaded" THEN uploaded + 1 ELSE uploaded
           /\ skipped' = IF class = "skipped" THEN skipped + 1 ELSE skipped
           /\ failed' = IF class = "failed" THEN failed + 1 ELSE failed
           /\ results' = Append(results,
                                [path |-> f, success |-> fut.success])
           /\ counted' = [counted EXCEPT ![f] = class]
    /\ UNCHANGED <<mainVars, pending, task, bpc>>

\* Every future has been handled: upload_batch returns its dict.
UploadBatchReturn ==
    /\ mpc = "collect"
    /\ \A i \in 1..Len(files) : futures[files[i]].state = "collected"
    /\ stats' = [total |-> Len(files), uploaded |-> uploaded,
                 skipped |-> skipped, failed |-> failed]
    /\ mpc' = "summary"
    /\ UNCHANGED <<files, opts, exit_code, poolVars, tallyVars>>

\* The exit code that is always 0.
ExitCode_Zero(st) == 0

\* return 0 if stats['failed'] == 0 else 1
ExitCode(st) == IF st.failed = 0 THEN 0 ELSE 1

\* run_monolith prints the summary and returns.
MonolithReturn ==
    /\ mpc = "summary"
    /\ exit_code' = ExitCode(stats)
    /\ mpc' = "finished"
    /\ UNCHANGED <<files, opts, stats, poolVars, tallyVars>>

\* Before run_monolith: the Uploader's options are those of the command
\* line.
InitBatchWith(options) ==
    /\ mpc = "start"
    /\ files = <<>>
    /\ opts = options
    /\ stats = NoStats
    /\ exit_code = -1
    /\ pending = <<>>
    /\ futures = [f \in BatchFiles |-> NoFuture]
    /\ task = [t \in PoolThreads |-> ""]
    /\ bpc = [t \in PoolThreads |-> "idle"]
    /\ uploaded = 0
    /\ skipped = 0
    /\ failed = 0
    /\ results = <<>>
    /\ counted = [f \in BatchFiles |-> "none"]

\* Uploader's defaults: dry_run=False, skip_duplicates=True,
\* overwrite=False
InitBatch ==
    InitBatchWith([skip_duplicates |-> TRUE, overwrite |-> FALSE,
                   dry_run |-> FALSE])

\* ------------------------------------- discover_files and the producer

\* The files the input directory may hold, each with the sub-directory it
\* is in ("" for the input directory itself), and the sub-directories.
TreePaths ==
    {[parent |-> "mba", name |-> "a.csv"],
     [parent |-> "mba", name |-> "d.pdf"],
     [parent |-> "policy", name |-> "b.csv"],
     [parent |-> "", name |-> "README"]}
ScopeDirs == {"mba", "policy"}

\* What the input path is: a directory, a plain file, or nothing.
RootKinds == {"dir", "file", "missing"}

\* The input paths: a file's sub-directory exists, and only a directory
\* holds anything.
Trees ==
    {tr \in [root : RootKinds, paths : SUBSET TreePaths,
             dirs : SUBSET ScopeDirs] :
        /\ \A p \in tr.paths : p.parent = "" \/ p.parent \in tr.dirs
        /\ tr.root # "dir" => tr.paths = {} /\ tr.dirs = {}}

\* The discovery that never raises.
discover_raises_Never(directory) == FALSE

\* discover_files raises FileDiscoveryError: not input_dir.exists(), or
\* not input_dir.is_dir()
discover_raises(directory) == directory.root # "dir"

\* No --include / --exclude: None
NoFilter == {}
ExtensionArgs == {NoFilter, {"csv"}, {".csv"}, {".pdf"}}

\* f".{ext.lstrip('.')}"
Normalized(ext) ==
    CASE ext \in {"csv", ".csv"} -> ".csv"
      [] ext \in {"pdf", ".pdf"} -> ".pdf"

\* No scope argument: None
NoScope == ""

\* discover_files: the files under scan_dir (the scope's sub-directory
\* when a scope is given and the sub-directory exists, the input
\* directory otherwise) that have an extension and pass the filters.
discover_files(directory, include_extensions, exclude_extensions, scope) ==
    LET scoped == scope # NoScope /\ scope \in directory.dirs
    IN  {p \in directory.paths :
            /\ scoped => p.parent = scope
            /\ suffix(p.name) # ""
            /\ include_extensions # NoFilter
                  => suffix(p.name)
                        \in {Normalized(e) : e \in include_extensions}
            /\ exclude_extensions # NoFilter
                  => suffix(p.name)
                        \notin {Normalized(e) : e \in exclude_extensions}}

\* The orders in which rglob can yield the files of a set.
Orderings(S) ==
    {o \in [1..Cardinality(S) -> S] :
        \A i, j \in DOMAIN o : i # j => o[i] # o[j]}

\* Job(path, scope, s3_key, bucket) as enqueue_files builds it.
ProducerJob(path, scope) ==
    [path |-> path, scope |-> scope,
     s3_key |-> build_s3_key(scope, path.name, get_prefix(scope)),
     bucket |-> get_bucket(scope)]

\* enqueue_files up to the loop: bucket and prefix of the scope, then
\* discover_files(input_dir, include_extensions, exclude_extensions).
\* FileDiscoveryError leaves enqueue_files; run_microservices catches it
\* and returns 1 (ppc "error").
EnqueueDiscover(listing) ==
    /\ ppc = "start"
    /\ IF discover_raises(tree)
       THEN /\ listing = <<>>
            /\ ppc' = "error"
            /\ UNCHANGED <<found, job_count>>
       ELSE /\ listing \in Orderings(discover_files(tree, cli_args.include,
                                                    cli_args.exclude, NoScope))
            /\ found' = listing
            /\ job_count' = 0
            /\ ppc' = "enqueue"
    /\ UNCHANGED <<tree, cli_args>>

\* The loop body of enqueue_files: the key, the Job, job_queue.put(job).
EnqueueJob ==
    /\ ppc = "enqueue"
    /\ found # <<>>
    /\ queue' = Append(queue, ProducerJob(Head(found), cli_args.scope))
    /\ unfinished_tasks' = unfinished_tasks + 1
    /\ total_put' = total_put + 1
    /\ job_count' = job_count + 1
    /\ found' = Tail(found)
    /\ UNCHANGED <<tree, cli_args, ppc>>
    /\ UNCHANGED <<lock, processed_count, failed_count, qpc, job, acks,
                   handed, workerVars, statsVars>>

\* enqueue_files returns job_count.
EnqueueReturn ==
    /\ ppc = "enqueue"
    /\ found = <<>>
    /\ ppc' = "returned"
    /\ UNCHANGED <<tree, cli_args, found, job_count>>

\* run_monolith with --scope and without --auto-detect-scope:
\* discover_files(..., scope=args.scope).
DiscoverInScope(listing) ==
    IF discover_raises(tree)
    THEN listing = <<>> /\ Discover("FileDiscoveryError", listing)
    ELSE /\ listing \in Orderings(discover_files(tree, cli_args.include,
                                                 cli_args.exclude,
                                                 cli_args.scope))
         /\ Discover(IF listing = <<>> THEN "nothing" ELSE "found", listing)

InitProducerWith(directory, arguments) ==
    /\ tree = directory
    /\ cli_args = arguments
    /\ ppc = "start"
    /\ found = <<>>
    /\ job_count = 0

\* An input directory with one file under mba/, scope mba, no filters.
InitProducer ==
    InitProducerWith(
        [root |-> "dir", paths |-> {[parent |-> "mba", name |-> "a.csv"]},
         dirs |-> {"mba"}],
        [scope |-> "mba", include |-> NoFilter, exclude |-> NoFilter])

\* ------------------------------------------- JobQueue.put and .get

\* Queue.put goes on: maxsize <= 0, or fewer than maxsize items queued.
HasRoom_Always(q, limit) == TRUE

HasRoom(q, limit) == limit <= 0 \/ Len(q) < limit

\* A thread calls job_queue.put(job).
PutCall(path) ==
    /\ putting = ""
    /\ total_put < MaxJobs
    /\ putting' = path
    /\ UNCHANGED <<maxsize, offered>>

\* Queue.put inside JobQueue.put: it waits on not_full while the queue
\* is full, then appends the job and returns. Every thread that is
\* inside get has now had a job in the queue.
PutEnqueue ==
    /\ putting # ""
    /\ HasRoom(queue, maxsize)
    /\ Put(putting)
    /\ putting' = ""
    /\ offered' = [t \in QThreads |-> offered[t] \/ qpc[t] = "get"]
    /\ UNCHANGED maxsize

\* A caller that got None calls get again.
ClientGetAgain(c) ==
    /\ qpc[c] = GetOnEmpty
    /\ qpc' = [qpc EXCEPT ![c] = "get"]
    /\ UNCHANGED <<queue, lock, counterVars, total_put, job, acks, handed,
                   workerVars, statsVars>>

\* Thread c enters get: what it has been offered starts with what the
\* queue holds now.
BeginGet(c) == offered' = [offered EXCEPT ![c] = queue # <<>>]

InitApiWith(limit) ==
    /\ maxsize = limit
    /\ putting = ""
    /\ offered = [t \in QThreads |-> FALSE]

\* job_queue = JobQueue(): maxsize 0
InitApi == InitApiWith(0)

\* ------------------------------------------------------- run_workers

NoSummary == [workers |-> 0, processed |-> -1, failed |-> -1]

\* The sum that leaves every worker out.
SumOver_None(count, S) == 0

\* sum(count[w] for w in S)
RECURSIVE SumOver(_, _)
SumOver(count, S) ==
    IF S = {} THEN 0
    ELSE LET w == CHOOSE v \in S : TRUE
         IN  count[w] + SumOver(count, S \ {w})

\* run_workers up to the joins: build_session (an exception leaves
\* run_workers), then one started thread per worker.
RunWorkersStart(outcome) ==
    /\ rpc = "start"
    /\ rpc' = IF outcome = "ok" THEN "running" ELSE "raised"
    /\ UNCHANGED summary

\* Every thread has been joined: run_workers sums up and returns.
RunWorkersReturn ==
    /\ rpc = "running"
    /\ \A w \in Workers : qpc[w] = "exited"
    /\ summary' = [workers |-> Cardinality(Workers),
                   processed |-> SumOver(w_processed, Workers),
                   failed |-> SumOver(w_failed, Workers)]
    /\ rpc' = "returned"

InitRun ==
    /\ rpc = "start"
    /\ summary = NoSummary

\* ------------------------------- db.connect and CsvToMySQLLoader.run

\* Whether get_engine() and eng.connect() succeed, attempt by attempt.
ConnectPlans == [1..ConnectRetries -> BOOLEAN]

\* What the body of a "with connect() as conn:" does: it executes and
\* commits; or it raises and nothing is committed; or the statement is
\* committed and the body, or conn.close(), raises all the same.
BodyOutcomes == {"ok", "error", "lost_reply"}

NoException == ""

\* connect() from the given attempt on: the retry loop is around the yield, so an
\* exception of the body, thrown in at the yield, is caught by the
\* loop's "except Exception"; on the last attempt it is raised again,
\* before that the loop goes on, and as soon as a later attempt connects
\* the generator yields a second time, which contextlib answers with
\* RuntimeError("generator didn't stop after throw()").
RECURSIVE ConnectLoop(_, _, _, _, _)
ConnectLoop(try, plan, body, yielded, committed) ==
    LET last == try = ConnectRetries
    IN  IF ~plan[try]
        THEN IF last
             THEN [raised |-> "OperationalError", committed |-> committed]
             ELSE ConnectLoop(try + 1, plan, body, yielded, committed)
        ELSE IF yielded
             THEN [raised |-> "RuntimeError", committed |-> committed]
             ELSE CASE body = "ok" ->
                         [raised |-> NoException, committed |-> TRUE]
                    [] body = "error" ->
                         IF last
                         THEN [raised |-> "SQLError", committed |-> FALSE]
                         ELSE ConnectLoop(try + 1, plan, body, TRUE, FALSE)
                    [] body = "lost_reply" ->
                         IF last
                         THEN [raised |-> "SQLError", committed |-> TRUE]
                         ELSE ConnectLoop(try + 1, plan, body, TRUE, TRUE)

\* with connect() as conn: conn.execute(...); conn.commit()
WithConnect(plan, body) == ConnectLoop(1, plan, body, FALSE, FALSE)

\* The exception that occurred first in a with-connect block that
\* raised: that of the body if the body ran, that of the connection
\* attempts otherwise.
FirstException(plan, body) ==
    IF \E i \in 1..ConnectRetries : plan[i] THEN "SQLError"
    ELSE "OperationalError"

\* The audit row that changes although the update was not committed.
Applied_Always(status, r, new) == new

\* The status of the audit row after an INSERT or UPDATE setting it.
Applied(status, r, new) == IF r.committed THEN new ELSE status

NoExc == [original |-> NoException, caught |-> NoException,
          raised |-> NoException]

\* raw = self._download(): outside the try, before the audit row exists.
Download(outcome) ==
    /\ lpc = "download"
    /\ IF outcome = "ok"
       THEN lpc' = "audit_start" /\ exc' = exc
       ELSE /\ lpc' = "raised"
            /\ exc' = [exc EXCEPT !.raised = "ClientError"]
    /\ UNCHANGED <<audit, written, rows_inserted, target>>

\* AuditLogger.start: ensure_table, then the INSERT of the STARTED row.
\* It is called outside the try of run: its exception leaves run.
AuditStart(ensure, plan, body) ==
    /\ lpc = "audit_start"
    /\ LET e == WithConnect(ensure, "ok")
           r == WithConnect(plan, body)
       IN  IF e.raised # NoException
           THEN /\ lpc' = "raised"
                /\ exc' = [exc EXCEPT !.raised = e.raised]
                /\ audit' = audit
           ELSE /\ audit' = Applied(audit, r, "STARTED")
                /\ IF r.raised = NoException
                   THEN lpc' = "schema" /\ exc' = exc
                   ELSE /\ lpc' = "raised"
                        /\ exc' = [exc EXCEPT !.raised = r.raised]
    /\ UNCHANGED <<written, rows_inserted, target>>

\* run's "except Exception as exc" is entered with what the try raised.
Caught(first, thrown) ==
    /\ lpc' = "audit_failure"
    /\ exc' = [exc EXCEPT !.original = first, !.caught = thrown]

\* infer_schema_from_csv_bytes and build_create_table_sql
InferSchema(outcome) ==
    /\ lpc = "schema"
    /\ IF outcome = "ok"
       THEN lpc' = "create" /\ exc' = exc
       ELSE Caught("ValueError", "ValueError")
    /\ UNCHANGED <<audit, written, rows_inserted, target>>

\* exec_sql(ddl)
CreateTable(plan, body) ==
    /\ lpc = "create"
    /\ LET r == WithConnect(plan, body)
       IN  /\ target' = [target EXCEPT !.exists = @ \/ r.committed]
           /\ IF r.raised = NoException
              THEN lpc' = "insert" /\ exc' = exc
              ELSE Caught(FirstException(plan, body), r.raised)
    /\ UNCHANGED <<audit, written, rows_inserted>>

\* rows_inserted += bulk_insert(table, batch)
InsertBatch(plan, body) ==
    /\ lpc = "insert"
    /\ rows_inserted < MaxBatches
    /\ LET r == WithConnect(plan, body)
       IN  /\ target' = [target EXCEPT
                           !.rows = IF r.committed THEN @ + 1 ELSE @]
           /\ IF r.raised = NoException
              THEN /\ rows_inserted' = rows_inserted + 1
                   /\ UNCHANGED <<lpc, exc>>
              ELSE /\ Caught(FirstException(plan, body), r.raised)
                   /\ rows_inserted' = rows_inserted
    /\ UNCHANGED <<audit, written>>

\* The rows are read: AuditLogger.success, inside the try, then return.
AuditSuccess(plan, body) ==
    /\ lpc = "insert"
    /\ LET r == WithConnect(plan, body)
       IN  /\ audit' = Applied(audit, r, "SUCCESS")
           /\ written' = [written EXCEPT !.success = r.committed]
           /\ IF r.raised = NoException
              THEN lpc' = "returned" /\ exc' = exc
              ELSE Caught(FirstException(plan, body), r.raised)
    /\ UNCHANGED <<rows_inserted, target>>

\* AuditLogger.failure catches and logs whatever its UPDATE raises; then
\* the bare "raise" of run raises what run caught.
AuditFailure(plan, body) ==
    /\ lpc = "audit_failure"
    /\ LET r == WithConnect(plan, body)
       IN  /\ audit' = Applied(audit, r, "FAILED")
           /\ written' = [written EXCEPT !.failure = r.committed]
    /\ exc' = [exc EXCEPT !.raised = exc.caught]
    /\ lpc' = "raised"
    /\ UNCHANGED <<rows_inserted, target>>

InitLoader ==
    /\ lpc = "download"
    /\ audit = "none"
    /\ exc = NoExc
    /\ written = [success |-> FALSE, failure |-> FALSE]
    /\ rows_inserted = 0
    /\ target = [exists |-> FALSE, rows |-> 0]

\* ------------------------------------------------------ specification

InitStore ==
    /\ local_files \in [Files -> Sizes]
    /\ \E present \in SUBSET Keys : s3_objects \in [present -> Sizes]

InitUpload ==
    /\ pc = [t \in Threads |-> "idle"]
    /\ call = [t \in Threads |-> NoCall]
    /\ attempt = [t \in Threads |-> 0]
    /\ puts = [t \in Threads |-> <<>>]
    /\ sleeps = [t \in Threads |-> <<>>]
    /\ head_ok = [t \in Threads |-> FALSE]
    /\ seen = [t \in Threads |-> NoSeen]
    /\ result = [t \in Threads |-> NoResult]
    /\ prev = [t \in Threads |-> NoPrev]

InitQueue ==
    /\ queue = <<>>
    /\ unfinished_tasks = 0
    /\ lock = "free"
    /\ processed_count = 0
    /\ failed_count = 0
    /\ total_put = 0
    /\ qpc = [t \in QThreads |-> "get"]
    /\ job = [t \in QThreads |-> NoJob]
    /\ success = [w \in Workers |-> FALSE]
    /\ acks = [t \in QThreads |-> NoAcks]
    /\ w_processed = [w \in Workers |-> 0]
    /\ w_failed = [w \in Workers |-> 0]
    /\ handed = [i \in JobIds |-> 0]
    /\ uploads = [i \in JobIds |-> 0]
    /\ spc = "idle"
    /\ snapshot = NoSnapshot

Init ==
    /\ InitStore
    /\ InitUpload
    /\ InitQueue
    /\ InitDetector
    /\ InitBatch
    /\ InitProducer
    /\ InitApi
    /\ InitRun
    /\ InitLoader
    /\ traced = Uploaders
    /\ drain_once = FALSE

\* One thread calling upload_file again and again, and the files changing.
Next ==
    \/ \E t \in Uploaders, f \in Files, k \in Keys, mr \in RetryArgs,
          cd \in BOOLEAN, ow \in BOOLEAN :
            BeginUpload(t, f, k, mr, cd, ow) /\ UNCHANGED <<queueVars, extraVars>>
    \/ \E t \in Uploaders, head \in HeadOutcomes :
            CheckDuplicate(t, head) /\ UNCHANGED <<queueVars, extraVars>>
    \/ \E t \in Uploaders : NoDuplicateCheck(t) /\ UNCHANGED <<queueVars, extraVars>>
    \/ \E t \in Uploaders, outcome \in PutOutcomes :
            PutAttempt(t, outcome) /\ UNCHANGED <<queueVars, extraVars>>
    \/ \E t \in Uploaders : Backoff(t) /\ UNCHANGED <<queueVars, extraVars>>
    \/ \E t \in Uploaders : FinishUpload(t) /\ UNCHANGED <<queueVars, extraVars>>
    \/ \E f \in Files, size \in Sizes :
            ModifyFile(f, size) /\ UNCHANGED <<queueVars, extraVars>>

Spec == Init /\ [][Next]_vars

\* ------------------------------------------------- upload_file claims

Skipped == Returned(TRUE, "Skipped (duplicate)")
Uploaded == Returned(TRUE, "Uploaded successfully")
Refused ==
    Returned(FALSE, "Exists with different size (use overwrite to replace)")

\* The call of t has ended and was made with duplicate checking on and
\* overwrite off.
CheckedCallDone(t) ==
    /\ pc[t] = "done"
    /\ call[t].check_duplicate
    /\ ~call[t].overwrite

\* The call of t repeats the call t made before: same file, same key, the
\* earlier call uploaded the file and the file was not rewritten since.
RepeatsUpload(t) ==
    /\ prev[t].uploaded
    /\ prev[t].file = call[t].file
    /\ prev[t].s3_key = call[t].s3_key
    /\ call[t].unchanged

\* The object at the key of t's call is what the call saw when it looked.
RemoteUntouched(t) ==
    /\ call[t].s3_key \in DOMAIN s3_objects
    /\ s3_objects[call[t].s3_key] = seen[t].s3_size

\* C2 as stated: the second of two uploads of the same unchanged file to
\* the same key, with duplicate checking on and overwrite off, the first
\* having uploaded it, reports "Skipped (duplicate)" and makes no PUT.
C2_SecondUploadSkips ==
    \A t \in Uploaders :
        CheckedCallDone(t) /\ RepeatsUpload(t)
            => result[t] = Skipped /\ puts[t] = <<>>

\* C2 amended: the same, when the second call's HEAD request is answered.
C2_SecondUploadSkipsWhenHeadAnswers ==
    \A t \in Uploaders :
        CheckedCallDone(t) /\ RepeatsUpload(t) /\ head_ok[t]
            => result[t] = Skipped /\ puts[t] = <<>>

C2_Witness ==
    \E t \in Uploaders :
        /\ CheckedCallDone(t) /\ RepeatsUpload(t) /\ head_ok[t]
        /\ result[t] = Skipped

\* C3: a call whose PUT attempts all fail with a retryable error makes
\* exactly max_retries attempts and ends in failure (it raises).
C3_RetryBound ==
    \A t \in Uploaders :
        /\ pc[t] = "done"
        /\ call[t].max_retries >= 1
        /\ puts[t] # <<>>
        /\ \A i \in 1..Len(puts[t]) : puts[t][i] = "InternalError"
        => /\ Len(puts[t]) = call[t].max_retries
           /\ result[t].kind = "raise"
           /\ ~result[t].success

C3_Witness ==
    \E t \in Uploaders :
        /\ pc[t] = "done"
        /\ Len(puts[t]) >= 2
        /\ \A i \in 1..Len(puts[t]) : puts[t][i] = "InternalError"

NonRetryable ==
    {"NoCredentialsError", "AccessDenied", "NoSuchBucket", "Exception"}

\* C4: a PUT attempt that fails with a credential error, AccessDenied,
\* NoSuchBucket or an unclassified exception is the call's last attempt,
\* no sleep follows it and the call ends raising; on the first attempt
\* that is one PUT in all.
C4_NoRetryClasses ==
    \A t \in Uploaders :
        \A i \in 1..Len(puts[t]) :
            puts[t][i] \in NonRetryable
                => /\ i = Len(puts[t])
                   /\ Len(sleeps[t]) = i - 1
                   /\ pc[t] = "done"
                   /\ result[t].kind = "raise"

C4_Witness ==
    \E t \in Uploaders :
        /\ Len(puts[t]) = 2
        /\ puts[t][2] = "AccessDenied"
        /\ pc[t] = "done"

\* C8 as stated: with duplicate checking on and overwrite off, an object
\* at the key of the local file's size makes the call return
\* (True, "Skipped (duplicate)") with no PUT, the object left as it was.
C8_SameSizeSkips ==
    \A t \in Uploaders :
        /\ CheckedCallDone(t)
        /\ seen[t].exists
        /\ seen[t].s3_size = seen[t].local_size
        => result[t] = Skipped /\ puts[t] = <<>> /\ RemoteUntouched(t)

\* C8 amended: the same, when the HEAD request is answered.
C8_SameSizeSkipsWhenHeadAnswers ==
    \A t \in Uploaders :
        /\ CheckedCallDone(t)
        /\ head_ok[t]
        /\ seen[t].exists
        /\ seen[t].s3_size = seen[t].local_size
        => result[t] = Skipped /\ puts[t] = <<>> /\ RemoteUntouched(t)

C8_Witness ==
    \E t \in Uploaders :
        /\ CheckedCallDone(t)
        /\ head_ok[t]
        /\ seen[t].exists
        /\ seen[t].s3_size = seen[t].local_size
        /\ prev[t] = NoPrev

\* C9 as stated: with duplicate checking on and overwrite off, an object
\* at the key of another size than the local file's makes the call return
\* success=False with the overwrite message, with no PUT and no sleep, the
\* object left as it was.
C9_SizeMismatchRefused ==
    \A t \in Uploaders :
        /\ CheckedCallDone(t)
        /\ seen[t].exists
        /\ seen[t].s3_size # seen[t].local_size
        => /\ result[t] = Refused
           /\ puts[t] = <<>>
           /\ sleeps[t] = <<>>
           /\ RemoteUntouched(t)

\* C9 amended: the same, when the HEAD request is answered.
C9_SizeMismatchRefusedWhenHeadAnswers ==
    \A t \in Uploaders :
        /\ CheckedCallDone(t)
        /\ head_ok[t]
        /\ seen[t].exists
        /\ seen[t].s3_size # seen[t].local_size
        => /\ result[t] = Refused
           /\ puts[t] = <<>>
           /\ sleeps[t] = <<>>
           /\ RemoteUntouched(t)

C9_Witness ==
    \E t \in Uploaders :
        /\ CheckedCallDone(t)
        /\ head_ok[t]
        /\ seen[t].exists
        /\ seen[t].s3_size # seen[t].local_size
        /\ result[t] = Refused

\* (a) duplicate checking on, overwrite off, nothing at the key
FreshCase(t) ==
    /\ call[t].check_duplicate
    /\ ~call[t].overwrite
    /\ seen[t].looked
    /\ ~seen[t].exists

\* (b) overwrite on, an object of another size at the key
OverwriteCase(t) ==
    /\ call[t].overwrite
    /\ seen[t].exists
    /\ seen[t].s3_size # seen[t].local_size

\* C10: in case (a) and in case (b), a call that met no failing PUT has
\* made exactly one PUT, which succeeded, and returned
\* (True, "Uploaded successfully"): it neither skipped nor refused.
C10_UploadsOnce ==
    \A t \in Uploaders :
        /\ pc[t] = "done"
        /\ call[t].max_retries >= 1
        /\ FreshCase(t) \/ OverwriteCase(t)
        /\ puts[t] = <<>> \/ puts[t][1] = "ok"
        => puts[t] = <<"ok">> /\ result[t] = Uploaded

C10_Witness ==
    \E t \in Uploaders :
        /\ pc[t] = "done"
        /\ OverwriteCase(t)
        /\ call[t].check_duplicate
        /\ puts[t] = <<"ok">>
        /\ result[t] = Uploaded
        /\ s3_objects[call[t].s3_key] # seen[t].s3_size

\* The HEAD request of t's call failed: neither a 200 nor a 404.
HeadFailed(t) == CheckedCallDone(t) /\ seen[t].looked /\ ~head_ok[t]

C18_BackoffOrdering ==
    \A t \in Uploaders :
        /\ \A i \in 1..Len(sleeps[t]) :
              /\ sleeps[t][i] = 2^i
              /\ i < call[t].max_retries
              /\ puts[t][i] = "InternalError"
        /\ \A i, j \in 1..Len(sleeps[t]) : i < j => sleeps[t][i] < sleeps[t][j]
        /\ pc[t] = "sleep"
              => Len(puts[t]) = attempt[t] /\ Len(sleeps[t]) = attempt[t]
        /\ pc[t] = "put"
              => Len(puts[t]) = attempt[t] - 1
                 /\ Len(sleeps[t]) = attempt[t] - 1
        /\ pc[t] = "done" /\ puts[t] # <<>>
              => Len(sleeps[t]) = Len(puts[t]) - 1

\* All three attempts of a call with the default max_retries failed.
C18_Witness ==
    \E t \in Uploaders :
        /\ pc[t] = "done"
        /\ call[t].max_retries = DefaultMaxRetries
        /\ sleeps[t] = <<2, 4>>
        /\ Len(puts[t]) = DefaultMaxRetries
        /\ result[t].kind = "raise"

\* ---------------------------------------------------- JobQueue claims

\* Jobs a caller has dequeued and not yet reported with task_done or
\* mark_failed.
InFlight == Cardinality({c \in Clients : qpc[c] = "got"})

\* C1 as stated: at all times processed + failed + queued equals the
\* number of jobs ever put, callers making one of task_done / mark_failed
\* per dequeued job.
C1_CountersSumToPut ==
    processed_count + failed_count + Len(queue) = total_put

\* C1 amended: processed + failed + queued + the jobs dequeued and not yet
\* reported equals the number of jobs ever put; the three counters alone
\* sum to it whenever no dequeued job awaits its report.
C1_CountersAndInFlightSumToPut ==
    /\ processed_count + failed_count + Len(queue) + InFlight = total_put
    /\ InFlight = 0 => C1_CountersSumToPut

C1_Witness ==
    /\ InFlight = 1
    /\ failed_count = 1
    /\ Len(queue) = 0
    /\ total_put = 2

\* C5: the dict stats() returns is a snapshot: its processed and failed
\* are the counters as they stand (they cannot move while stats() holds
\* the lock, so they are the counters of the instant queued was read),
\* and its total is the sum of its queued, processed and failed.
C5_StatsSnapshot ==
    spc = "return"
        => /\ snapshot.processed = processed_count
           /\ snapshot.failed = failed_count
           /\ snapshot.total
                = snapshot.queued + snapshot.processed + snapshot.failed

\* ------------------------------------------------------ Worker claims

\* C6: every job put is handed out by get at most once and uploaded at
\* most once, no two workers hold the same job, a job a worker holds is
\* no longer queued, and only jobs that were put are handed out.
C6_ExactlyOnce ==
    /\ \A i \in JobIds :
          /\ handed[i] <= 1
          /\ uploads[i] <= handed[i]
          /\ i > total_put => handed[i] = 0
    /\ \A w \in Workers :
          job[w] # NoJob
              => /\ job[w].id \in 1..total_put
                 /\ \A v \in Workers \ {w} : job[v] # job[w]
                 /\ \A i \in 1..Len(queue) : queue[i] # job[w]

C6_Witness ==
    /\ \A w \in Workers : qpc[w] = "uploading"
    /\ \A i \in JobIds : uploads[i] = 1

\* C7: for a job it has dequeued and finished with, a worker has called
\* exactly one of task_done and mark_failed.
C7_ExactlyOneReport ==
    \A w \in Workers :
        acks[w].dequeued /\ qpc[w] \in {"get", "timedout", "exited"}
            => acks[w].task_done + acks[w].mark_failed = 1

\* upload_file returned success: the file was uploaded or skipped.
UploadSucceeded(res) == res.kind = "return" /\ res.success

\* C26 as stated: process_job returns True and adds 1 to the worker's
\* processed exactly when the upload succeeded; when upload_file
\* reported success=False or raised, it returns False and adds 1 to the
\* worker's failed, and the worker then goes on to mark_failed.
C26_ProcessJobVerdict ==
    [][\A w \in Workers :
        qpc[w] = "uploading" /\ qpc'[w] # "uploading"
            => /\ success'[w] <=> UploadSucceeded(result[w])
               /\ w_processed'[w] - w_processed[w]
                     = IF UploadSucceeded(result[w]) THEN 1 ELSE 0
               /\ w_failed'[w] - w_failed[w]
                     = IF UploadSucceeded(result[w]) THEN 0 ELSE 1]_vars

\* C27 as stated: a call with check_duplicate on and overwrite off never
\* makes a PUT that succeeds at a key that holds an object at the moment
\* of the PUT, also when several calls go to the same key at once.
C27_NeverReplaces ==
    [][\A w \in Workers :
        /\ pc[w] = "put"
        /\ result'[w] = Uploaded
        /\ call[w].check_duplicate /\ ~call[w].overwrite
        => call[w].s3_key \notin DOMAIN s3_objects]_vars

\* C19: a worker leaves its loop only with drain_once set, straight after
\* a get that returned nothing, the queue being empty as it leaves; so a
\* worker without drain_once never exits, and none exits holding a job.
C19_WorkerExit ==
    /\ [](\A w \in Workers :
            qpc[w] = "exited" => drain_once /\ job[w] = NoJob)
    /\ [][\A w \in Workers :
            qpc'[w] = "exited" /\ qpc[w] # "exited"
                => /\ drain_once
                   /\ qpc[w] = "timedout"
                   /\ queue = <<>>
                   /\ job[w] = NoJob]_vars

\* A worker has exited after processing a job, another is still polling.
C19_Witness ==
    \E w, v \in Workers :
        /\ qpc[w] = "exited"
        /\ w_processed[w] + w_failed[w] >= 1
        /\ qpc[v] = "timedout"

\* C22 as stated: get never raises on a timeout, and it returns None
\* only if no job was in the queue at any moment of its wait.
C22_NoneOnlyIfNeverOffered ==
    \A c \in Clients :
        /\ qpc[c] # "raised"
        /\ qpc[c] = "timedout" => ~offered[c]

\* C22 amended: get never raises on a timeout; it returns None only at a
\* moment the queue is empty, and returns the head of the queue
\* otherwise; a job that was in the queue during the wait may have gone
\* to another caller.
C22_NoneOnlyOnEmpty ==
    /\ [](\A c \in Clients : qpc[c] # "raised")
    /\ [][\A c \in Clients :
            qpc[c] = "get" /\ qpc'[c] # "get"
                => IF queue = <<>>
                   THEN qpc'[c] = "timedout" /\ job'[c] = NoJob
                   ELSE /\ qpc'[c] = "got"
                        /\ job'[c] = Head(queue)
                        /\ queue' = Tail(queue)]_vars

\* One caller got the only job and the other got None, although the job
\* was put while it waited.
C22_Witness ==
    \E c, d \in Clients :
        /\ qpc[c] = "timedout"
        /\ offered[c]
        /\ acks[d].dequeued
        /\ total_put = 1

\* A put call is waiting for room in the queue.
PutBlocked == putting # "" /\ ~HasRoom(queue, maxsize)

\* C23 as stated: whatever the JobQueue and its size, a put call is never
\* left waiting.
C23_PutNeverBlocks == ~(putting # "" /\ maxsize > 0 /\ Len(queue) >= maxsize)

\* C23 amended: a JobQueue built with maxsize 0, as the module's
\* job_queue is, always has room, so put never waits; a JobQueue built
\* with maxsize > 0 never holds more than maxsize jobs, and put waits
\* exactly while it holds maxsize.
C23_PutBlocksOnlyWhenFull ==
    /\ maxsize = 0 => HasRoom(queue, maxsize) /\ ~PutBlocked
    /\ maxsize > 0
          => /\ Len(queue) <= maxsize
             /\ PutBlocked <=> putting # "" /\ Len(queue) = maxsize

\* The queue without limit holds MaxJobs jobs, all put without waiting.
C23_Witness ==
    /\ maxsize = 0
    /\ Len(queue) = MaxJobs
    /\ total_put = MaxJobs
    /\ putting = ""

\* The JobQueue API: threads that put, and callers of get(timeout) that
\* report each job with task_done or mark_failed.
NextQueueApi ==
    \/ \E path \in Files :
            /\ PutCall(path)
            /\ UNCHANGED <<storeVars, uploadVars, queueVars, scanVars,
                           batchVars, producerVars, runVars, etlVars>>
    \/ PutEnqueue
            /\ UNCHANGED <<storeVars, uploadVars, scanVars, batchVars,
                           producerVars, runVars, etlVars>>
    \/ \E c \in Clients :
            /\ Get(c)
            /\ UNCHANGED <<storeVars, uploadVars, extraVars>>
    \/ \E c \in Clients :
            /\ WorkerGetNone(c)
            /\ UNCHANGED <<storeVars, uploadVars, extraVars>>
    \/ \E c \in Clients :
            /\ ClientGetAgain(c)
            /\ BeginGet(c)
            /\ UNCHANGED <<storeVars, uploadVars, scanVars, batchVars,
                           producerVars, runVars, etlVars, maxsize, putting>>
    \/ \E c \in Clients :
            /\ ClientTaskDone(c)
            /\ BeginGet(c)
            /\ UNCHANGED <<storeVars, uploadVars, scanVars, batchVars,
                           producerVars, runVars, etlVars, maxsize, putting>>
    \/ \E c \in Clients :
            /\ ClientMarkFailed(c)
            /\ BeginGet(c)
            /\ UNCHANGED <<storeVars, uploadVars, scanVars, batchVars,
                           producerVars, runVars, etlVars, maxsize, putting>>

InitQueueApi ==
    /\ local_files = [f \in Files |-> 1]
    /\ s3_objects = <<>>
    /\ InitUpload
    /\ InitQueue
    /\ InitDetector
    /\ InitBatch
    /\ InitProducer
    /\ \E limit \in 0..MaxQueueSize : InitApiWith(limit)
    /\ InitRun
    /\ InitLoader
    /\ traced = {}
    /\ drain_once = FALSE

SpecQueueApi == InitQueueApi /\ [][NextQueueApi]_vars

\* JobQueue alone: producers, callers that keep the protocol of one
\* task_done or mark_failed per job, and a thread calling stats().
NextJobQueue ==
    \/ \E path \in Files : Put(path) /\ UNCHANGED <<storeVars, uploadVars, extraVars>>
    \/ \E c \in Clients : Get(c) /\ UNCHANGED <<storeVars, uploadVars, extraVars>>
    \/ \E c \in Clients : ClientTaskDone(c) /\ UNCHANGED <<storeVars, uploadVars, extraVars>>
    \/ \E c \in Clients : ClientMarkFailed(c) /\ UNCHANGED <<storeVars, uploadVars, extraVars>>
    \/ StatsLock /\ UNCHANGED <<storeVars, uploadVars, extraVars>>
    \/ StatsRead /\ UNCHANGED <<storeVars, uploadVars, extraVars>>
    \/ StatsReturn /\ UNCHANGED <<storeVars, uploadVars, extraVars>>

InitJobQueue ==
    /\ local_files = [f \in Files |-> 1]
    /\ s3_objects = <<>>
    /\ InitUpload
    /\ InitQueue
    /\ InitDetector
    /\ InitBatch
    /\ InitProducer
    /\ InitApi
    /\ InitRun
    /\ InitLoader
    /\ traced = {}
    /\ drain_once = FALSE

SpecJobQueue == InitJobQueue /\ [][NextJobQueue]_vars

\* run_workers: the Worker threads, each in Worker.run, and a producer.
NextWorkers ==
    \/ \E path \in Files : Put(path) /\ UNCHANGED <<storeVars, uploadVars, extraVars>>
    \/ \E w \in Workers : Get(w) /\ UNCHANGED <<storeVars, uploadVars, extraVars>>
    \/ \E w \in Workers : WorkerGetNone(w) /\ UNCHANGED <<storeVars, uploadVars, extraVars>>
    \/ \E w \in Workers : WorkerCheckDrain(w) /\ UNCHANGED <<storeVars, uploadVars, extraVars>>
    \/ \E w \in Workers : WorkerProcessJob(w) /\ UNCHANGED extraVars
    \/ \E w \in Workers, head \in HeadOutcomes :
            /\ CheckDuplicate(w, head)
            /\ UNCHANGED <<queueVars, extraVars>>
    \/ \E w \in Workers, outcome \in PutOutcomes :
            /\ PutAttempt(w, outcome)
            /\ UNCHANGED <<queueVars, extraVars>>
    \/ \E w \in Workers : Backoff(w) /\ UNCHANGED <<queueVars, extraVars>>
    \/ \E w \in Workers : ProcessJobReturn(w) /\ UNCHANGED extraVars
    \/ \E w \in Workers : WorkerTaskDone(w) /\ UNCHANGED <<storeVars, uploadVars, extraVars>>
    \/ \E w \in Workers : WorkerMarkFailed(w) /\ UNCHANGED <<storeVars, uploadVars, extraVars>>

\* a.csv has 1 byte and b.csv has more; the bucket holds a 1-byte object at
\* any of the keys, so a job finds its key free, or taken by an object of
\* its own size, or taken by one of another size.
InitWorkers ==
    /\ local_files = [f \in Files |-> IF f = "a.csv" THEN 1 ELSE MaxSize]
    /\ \E present \in SUBSET Keys : s3_objects = [k \in present |-> 1]
    /\ InitUpload
    /\ InitQueue
    /\ InitDetector
    /\ InitBatch
    /\ InitProducer
    /\ InitApi
    /\ InitRun
    /\ InitLoader
    /\ traced = {}
    /\ drain_once \in BOOLEAN

SpecWorkers == InitWorkers /\ [][NextWorkers]_vars

\* ------------------------------------------------- run_workers claims

\* What holds when run_workers has returned: the queue is empty, every
\* enqueued job was handed out once and uploaded once, no worker holds a
\* job, and the workers' processed and failed add up to the jobs.
DrainedAll ==
    /\ queue = <<>>
    /\ \A w \in Workers : qpc[w] = "exited" /\ job[w] = NoJob
    /\ \A i \in 1..total_put : handed[i] = 1 /\ uploads[i] = 1
    /\ SumOver(w_processed, Workers) + SumOver(w_failed, Workers) = total_put
    /\ summary.processed + summary.failed = total_put

Running(w) == rpc = "running" /\ w \in Workers

\* run_workers with drain_once on a queue that was filled before.
NextDrain ==
    \/ \E outcome \in {"ok", "raise"} :
            /\ RunWorkersStart(outcome)
            /\ UNCHANGED <<storeVars, uploadVars, queueVars, scanVars,
                           batchVars, producerVars, apiVars, etlVars>>
    \/ \E w \in Workers :
            /\ Running(w) /\ Get(w)
            /\ UNCHANGED <<storeVars, uploadVars, extraVars>>
    \/ \E w \in Workers :
            /\ Running(w) /\ WorkerGetNone(w)
            /\ UNCHANGED <<storeVars, uploadVars, extraVars>>
    \/ \E w \in Workers :
            /\ Running(w) /\ WorkerCheckDrain(w)
            /\ UNCHANGED <<storeVars, uploadVars, extraVars>>
    \/ \E w \in Workers :
            /\ Running(w) /\ WorkerProcessJob(w)
            /\ UNCHANGED extraVars
    \/ \E w \in Workers, head \in HeadOutcomes :
            /\ Running(w) /\ CheckDuplicate(w, head)
            /\ UNCHANGED <<queueVars, extraVars>>
    \/ \E w \in Workers, outcome \in BatchPutOutcomes :
            /\ Running(w) /\ PutAttempt(w, outcome)
            /\ UNCHANGED <<queueVars, extraVars>>
    \/ \E w \in Workers :
            /\ Running(w) /\ Backoff(w)
            /\ UNCHANGED <<queueVars, extraVars>>
    \/ \E w \in Workers :
            /\ Running(w) /\ ProcessJobReturn(w)
            /\ UNCHANGED extraVars
    \/ \E w \in Workers :
            /\ Running(w) /\ WorkerTaskDone(w)
            /\ UNCHANGED <<storeVars, uploadVars, extraVars>>
    \/ \E w \in Workers :
            /\ Running(w) /\ WorkerMarkFailed(w)
            /\ UNCHANGED <<storeVars, uploadVars, extraVars>>
    \/ RunWorkersReturn
            /\ UNCHANGED <<storeVars, uploadVars, queueVars, scanVars,
                           batchVars, producerVars, apiVars, etlVars>>

\* The jobs of a queue filled before the workers start.
Preloaded ==
    {q \in UNION {[1..n -> [id : JobIds, path : Files, s3_key : Keys]] :
                     n \in 0..MaxJobs} :
        \A i \in DOMAIN q :
            /\ q[i].id = i
            /\ q[i].s3_key = build_s3_key("mba", q[i].path, get_prefix("mba"))}

InitDrain ==
    /\ local_files = [f \in Files |-> IF f = "a.csv" THEN 1 ELSE MaxSize]
    /\ \E present \in SUBSET Keys : s3_objects = [k \in present |-> 1]
    /\ InitUpload
    /\ \E q \in Preloaded :
          /\ queue = q
          /\ unfinished_tasks = Len(q)
          /\ total_put = Len(q)
    /\ lock = "free"
    /\ processed_count = 0
    /\ failed_count = 0
    /\ qpc = [t \in QThreads |-> "get"]
    /\ job = [t \in QThreads |-> NoJob]
    /\ success = [w \in Workers |-> FALSE]
    /\ acks = [t \in QThreads |-> NoAcks]
    /\ w_processed = [w \in Workers |-> 0]
    /\ w_failed = [w \in Workers |-> 0]
    /\ handed = [i \in JobIds |-> 0]
    /\ uploads = [i \in JobIds |-> 0]
    /\ spc = "idle"
    /\ snapshot = NoSnapshot
    /\ InitDetector
    /\ InitBatch
    /\ InitProducer
    /\ InitApi
    /\ InitRun
    /\ InitLoader
    /\ traced = {}
    /\ drain_once = TRUE

\* Threads are scheduled: the program does not stop while a step of it
\* can be taken.
SpecDrain == InitDrain /\ [][NextDrain]_vars /\ WF_vars(NextDrain)

\* ---------------------------------------------------- loader claims

\* run raised an exception of its processing steps (the try block).
FailedInProcessing == lpc = "raised" /\ exc.original # NoException

\* C25 as stated: when run fails during processing, the exception that
\* reaches the caller is the one that occurred in processing, whether
\* or not the failure could be recorded in the audit row.
C25_OriginalPropagates ==
    FailedInProcessing => exc.raised = exc.original

\* C30 as stated: once run has finished, the audit row that start
\* created is SUCCESS exactly when run returned and FAILED exactly when
\* run raised, it is never left STARTED, and it never changes from
\* SUCCESS to FAILED.
C30_TerminalStatus ==
    /\ [](lpc \in {"returned", "raised"} /\ audit # "none"
            => /\ audit # "STARTED"
               /\ audit = "SUCCESS" <=> lpc = "returned"
               /\ audit = "FAILED" <=> lpc = "raised")
    /\ [][audit = "SUCCESS" => audit' = "SUCCESS"]_vars

\* C30 amended: when run has returned the row is SUCCESS. When run has
\* raised, the row is FAILED if the failure update took effect; if it
\* did not (which is only logged) the row is left as it was: STARTED,
\* or SUCCESS when the success update had taken effect although
\* AuditLogger.success raised. The row is FAILED only when run raised,
\* and it changes from SUCCESS to FAILED only in that last case.
C30_StatusFollowsWrites ==
    /\ [](lpc = "returned" => audit = "SUCCESS" /\ written.success)
    /\ [](lpc = "raised" /\ audit # "none"
            => audit = IF written.failure THEN "FAILED"
                       ELSE IF written.success THEN "SUCCESS"
                       ELSE "STARTED")
    /\ [](audit = "FAILED" => lpc = "raised" /\ written.failure)
    /\ [](audit = "SUCCESS" => written.success)
    /\ [][audit = "SUCCESS" /\ audit' # "SUCCESS"
            => /\ audit' = "FAILED"
               /\ lpc = "audit_failure"
               /\ exc.caught # NoException]_vars

\* run raised what an insert raised, and the failure update could not
\* be written: the row is left STARTED.
C30_Witness ==
    /\ lpc = "raised"
    /\ audit = "STARTED"
    /\ rows_inserted = 1
    /\ exc.raised = exc.caught
    /\ exc.caught # NoException
    /\ ~written.failure

\* One CsvToMySQLLoader.run, from the download to the return or raise.
NextLoader ==
    \/ \E outcome \in {"ok", "raise"} :
            /\ Download(outcome)
            /\ UNCHANGED <<storeVars, uploadVars, queueVars, scanVars,
                           batchVars, producerVars, apiVars, runVars>>
    \/ \E ensure \in ConnectPlans, plan \in ConnectPlans,
          body \in BodyOutcomes :
            /\ AuditStart(ensure, plan, body)
            /\ UNCHANGED <<storeVars, uploadVars, queueVars, scanVars,
                           batchVars, producerVars, apiVars, runVars>>
    \/ \E outcome \in {"ok", "raise"} :
            /\ InferSchema(outcome)
            /\ UNCHANGED <<storeVars, uploadVars, queueVars, scanVars,
                           batchVars, producerVars, apiVars, runVars>>
    \/ \E plan \in ConnectPlans, body \in BodyOutcomes :
            /\ CreateTable(plan, body)
            /\ UNCHANGED <<storeVars, uploadVars, queueVars, scanVars,
                           batchVars, producerVars, apiVars, runVars>>
    \/ \E plan \in ConnectPlans, body \in BodyOutcomes :
            /\ InsertBatch(plan, body)
            /\ UNCHANGED <<storeVars, uploadVars, queueVars, scanVars,
                           batchVars, producerVars, apiVars, runVars>>
    \/ \E plan \in ConnectPlans, body \in BodyOutcomes :
            /\ AuditSuccess(plan, body)
            /\ UNCHANGED <<storeVars, uploadVars, queueVars, scanVars,
                           batchVars, producerVars, apiVars, runVars>>
    \/ \E plan \in ConnectPlans, body \in BodyOutcomes :
            /\ AuditFailure(plan, body)
            /\ UNCHANGED <<storeVars, uploadVars, queueVars, scanVars,
                           batchVars, producerVars, apiVars, runVars>>

InitEtl ==
    /\ local_files = [f \in Files |-> 1]
    /\ s3_objects = <<>>
    /\ InitUpload
    /\ InitQueue
    /\ InitDetector
    /\ InitBatch
    /\ InitProducer
    /\ InitApi
    /\ InitRun
    /\ InitLoader
    /\ traced = {}
    /\ drain_once = FALSE

SpecLoader == InitEtl /\ [][NextLoader]_vars

\* ------------------------------------------- DuplicateDetector claims

\* The last scan filed f under digest h.
InGroup(f, h) ==
    /\ h \in DOMAIN hash_to_files
    /\ \E i \in 1..Len(hash_to_files[h]) : hash_to_files[h][i] = f

\* The last scan put f and g in the same group.
SameGroup(f, g) == \E h \in DOMAIN hash_to_files : InGroup(f, h) /\ InGroup(g, h)

\* How often f occurs in what the last scan returned.
Occurrences(f) ==
    Cardinality({hi \in (DOMAIN hash_to_files) \X (1..Cardinality(DirFiles)) :
                    /\ hi[2] <= Len(hash_to_files[hi[1]])
                    /\ hash_to_files[hi[1]][hi[2]] = f})

\* The cache entry the scan found for f has the size and the mtime that
\* f has on disk.
CacheHit(f) ==
    /\ before[f].present
    /\ before[f].size = st_size(disk[f].content)
    /\ before[f].mtime = disk[f].mtime

\* C14: a scan takes the digest of a path from the cache, and leaves the
\* entry alone, only when the cached size and mtime are those of the file;
\* otherwise (no entry, another size, another mtime) the entry becomes the
\* digest read from the file (empty when the read fails) with the size
\* and mtime of the file. The path is filed under the digest so obtained.
C14_CacheTrust ==
    scan_done =>
        \A f \in DirFiles :
            /\ IF CacheHit(f)
               THEN local_cache[f] = before[f]
               ELSE /\ local_cache[f].present
                    /\ local_cache[f].hash \in {md5(disk[f].content), ""}
                    /\ local_cache[f].size = st_size(disk[f].content)
                    /\ local_cache[f].mtime = disk[f].mtime
            /\ local_cache[f].hash # "" <=> InGroup(f, local_cache[f].hash)
            /\ Occurrences(f) <= 1

\* One scan trusted the entry of a.csv and replaced that of b.csv, whose
\* mtime alone was off, by the digest of the bytes b.csv holds.
C14_Witness ==
    /\ scan_done
    /\ CacheHit("a.csv")
    /\ before["b.csv"].present
    /\ before["b.csv"].size = st_size(disk["b.csv"].content)
    /\ before["b.csv"].mtime # disk["b.csv"].mtime
    /\ local_cache["b.csv"].hash = md5(disk["b.csv"].content)
    /\ local_cache["b.csv"].hash # before["b.csv"].hash

\* C15 as stated: a scan puts two files in the same group exactly when
\* their bytes are the same, whatever the listing order and whether the
\* digests come from the cache or from the files.
C15_GroupsByBytes ==
    scan_done =>
        \A f, g \in DirFiles :
            SameGroup(f, g) <=> disk[f].content = disk[g].content

\* C15 amended: two files are in the same group exactly when the digests
\* the scan used for them (local_cache holds them once it has returned)
\* are the same and not empty; when each digest used is that of the
\* file's bytes, the groups are the classes of files with the same bytes.
C15_GroupsByDigestUsed ==
    scan_done =>
        /\ \A f, g \in DirFiles :
              SameGroup(f, g)
                  <=> /\ local_cache[f].hash = local_cache[g].hash
                      /\ local_cache[f].hash # ""
        /\ (\A f \in DirFiles : local_cache[f].hash = md5(disk[f].content))
              => \A f, g \in DirFiles :
                    SameGroup(f, g) <=> disk[f].content = disk[g].content
        /\ \A f \in DirFiles : Occurrences(f) <= 1

\* a.csv and b.csv hold the same bytes and c.csv others; the digest of
\* a.csv came from the cache and that of b.csv from the file; the scan
\* returned the group of a.csv and b.csv and the group of c.csv alone.
C15_Witness ==
    /\ scan_done
    /\ disk["a.csv"].content = disk["b.csv"].content
    /\ disk["a.csv"].content # disk["c.csv"].content
    /\ CacheHit("a.csv")
    /\ ~CacheHit("b.csv")
    /\ Cardinality(DOMAIN hash_to_files) = 2
    /\ SameGroup("a.csv", "b.csv")
    /\ ~SameGroup("a.csv", "c.csv")
    /\ Len(hash_to_files[md5(disk["c.csv"].content)]) = 1

\* One DuplicateDetector scanning a directory again and again, the files
\* being rewritten in between.
NextScan ==
    \/ \E listing \in Listings, unreadable \in SUBSET Rewritable,
          save_ok \in BOOLEAN :
            /\ scan_local_directory(listing, unreadable, save_ok)
            /\ UNCHANGED <<storeVars, uploadVars, queueVars, batchVars, producerVars, restVars>>
    \/ ScanResultUsed /\ UNCHANGED <<storeVars, uploadVars, queueVars, batchVars, producerVars, restVars>>
    \/ \E f \in DirFiles, content \in Contents, mtime \in Mtimes :
            /\ RewriteFile(f, content, mtime)
            /\ UNCHANGED <<storeVars, uploadVars, queueVars, batchVars, producerVars, restVars>>

InitScan ==
    /\ local_files = [f \in Files |-> 1]
    /\ s3_objects = <<>>
    /\ InitUpload
    /\ InitQueue
    /\ \E directory \in [DirFiles -> [content : Contents, mtime : Mtimes]] :
          /\ directory["c.csv"] = [content |-> "zz", mtime |-> 1]
          /\ InitDetectorOn(directory)
    /\ InitBatch
    /\ InitProducer
    /\ InitApi
    /\ InitRun
    /\ InitLoader
    /\ traced = {}
    /\ drain_once = FALSE

SpecScan == InitScan /\ [][NextScan]_vars

\* ------------------------------------------------ upload_batch claims

\* upload_batch has returned its statistics.
BatchReturned == mpc \in {"summary", "finished"}

\* C12: once the files are submitted nothing a file does leaves
\* upload_batch as an exception; when upload_batch returns, every file of
\* the list has been run and counted once, a file whose call raised being
\* counted as failed, and the statistics cover the whole list.
C12_FailureIsolation ==
    /\ mpc = "error" => \A f \in BatchFiles : futures[f].state = "none"
    /\ \A f \in BatchFiles :
          futures[f].state = "collected" /\ futures[f].kind = "raise"
              => counted[f] = "failed"
    /\ BatchReturned
          => /\ \A i \in 1..Len(files) :
                   /\ futures[files[i]].state = "collected"
                   /\ futures[files[i]].kind \in {"return", "raise"}
                   /\ counted[files[i]] # "none"
             /\ Len(results) = Len(files)
             /\ stats.total = Len(files)
             /\ stats.uploaded + stats.skipped + stats.failed = stats.total
             /\ stats.failed
                   = Cardinality({f \in BatchFiles : counted[f] = "failed"})

\* The call for one file raised out of upload_single, the upload of the
\* other met a store error that is not retried, or used up its retries,
\* or succeeded; upload_batch returned with both files counted.
C12_Witness ==
    /\ mpc = "finished"
    /\ \E f, g \in BatchFiles :
          /\ futures[f].kind = "raise"
          /\ futures[g].kind = "return"
          /\ counted[g] = "uploaded"
    /\ stats.failed = 1

\* C24: in a dry run no pool thread ever calls upload_file, makes a HEAD
\* or a PUT, whatever the files and the other options, and no step of
\* the run changes the bucket.
C24_DryRunTransfersNothing ==
    /\ [](opts.dry_run
            => \A t \in PoolThreads :
                  /\ pc[t] = "idle"
                  /\ ~seen[t].looked
                  /\ puts[t] = <<>>)
    /\ [][opts.dry_run => s3_objects' = s3_objects]_vars

\* A dry run with duplicate checking on has gone through both files,
\* whose keys hold objects in the bucket, and returned.
C24_Witness ==
    /\ opts.dry_run
    /\ opts.skip_duplicates
    /\ mpc = "finished"
    /\ stats.total = Cardinality(BatchFiles)
    /\ DOMAIN s3_objects = BatchKeys

\* How many entries results holds for file f.
Entries(f) == Cardinality({i \in 1..Len(results) : results[i].path = f})

\* C29: when upload_batch has returned, uploaded + skipped + failed is
\* total, total is the number of files submitted, each counter is the
\* number of files counted so, and results holds one entry per submitted
\* file and no other.
C29_CountersPartition ==
    BatchReturned
        => /\ stats.total = Len(files)
           /\ stats.uploaded + stats.skipped + stats.failed = stats.total
           /\ \A class \in {"uploaded", "skipped", "failed"} :
                 stats[class]
                    = Cardinality({i \in 1..Len(files) :
                                      counted[files[i]] = class})
           /\ Len(results) = Len(files)
           /\ \A i \in 1..Len(files) : Entries(files[i]) = 1

\* upload_batch has returned for two files, one skipped as a remote
\* duplicate and one refused or failed.
C29_Witness ==
    /\ mpc = "summary"
    /\ stats.total = 2
    /\ stats.skipped = 1
    /\ stats.failed = 1
    /\ \E f \in BatchFiles : futures[f].upload = Skipped

\* C13 as stated: at most one pool thread at a time is inside the loop of
\* scan_local_directory that reads and writes the cache, or inside
\* _save_cache.
C13_CacheMutex ==
    Cardinality({t \in PoolThreads : bpc[t] \in {"cache", "save"}}) <= 1

\* C16 as stated: a file is counted as skipped exactly when upload_file
\* skipped it as a remote duplicate, as uploaded exactly when upload_file
\* put it, and as failed exactly when its call reported or raised a
\* failure.
C16_Classification ==
    \A f \in BatchFiles :
        counted[f] # "none"
            => /\ counted[f] = "skipped" <=> futures[f].upload = Skipped
               /\ counted[f] = "uploaded" <=> futures[f].upload = Uploaded
               /\ counted[f] = "failed"
                     <=> futures[f].upload \notin {Skipped, Uploaded}

\* run_monolith has returned.
MonolithExited == mpc \in {"finished", "no_files", "error"}

\* C17 as stated: the exit status of run_monolith is non-zero exactly
\* when the failed count of the batch is greater than zero.
C17_ExitIffFailed ==
    MonolithExited => (exit_code # 0 <=> failed > 0)

\* C17 amended: when upload_batch has returned its statistics the exit
\* status is non-zero exactly when their failed count is greater than
\* zero, and 0 when every file was uploaded or skipped; without
\* statistics it is 0 when no file was found and 1 when discovery, the
\* construction of the Uploader or the scan before the batch raised.
C17_ExitStatus ==
    /\ mpc = "finished"
          => /\ exit_code \in {0, 1}
             /\ exit_code # 0 <=> stats.failed > 0
             /\ stats.uploaded + stats.skipped = stats.total => exit_code = 0
    /\ mpc = "no_files" => exit_code = 0 /\ stats = NoStats
    /\ mpc = "error" => exit_code = 1 /\ stats = NoStats
    /\ ~MonolithExited => exit_code = -1

\* A run whose batch counted one file as failed and one as uploaded has
\* returned 1.
C17_Witness ==
    /\ mpc = "finished"
    /\ exit_code = 1
    /\ stats.failed = 1
    /\ stats.uploaded = 1

\* run_monolith with an explicit scope: discovery, the Uploader, the
\* batch on a pool of two threads, the exit code.
NextBatch ==
    \/ \E outcome \in {"found", "nothing", "FileDiscoveryError"},
          listing \in BatchListings :
            /\ Discover(outcome, listing)
            /\ UNCHANGED <<storeVars, uploadVars, queueVars, scanVars, producerVars, restVars>>
    \/ \E outcome \in {"ok", "raise"} :
            /\ CreateUploader(outcome)
            /\ UNCHANGED <<storeVars, uploadVars, queueVars, scanVars, producerVars, restVars>>
    \/ \E outcome \in {"ok", "raise"} :
            /\ UploadBatchSubmit(outcome)
            /\ UNCHANGED <<storeVars, uploadVars, queueVars, scanVars, producerVars, restVars>>
    \/ \E t \in PoolThreads :
            /\ TakeTask(t)
            /\ UNCHANGED <<storeVars, uploadVars, queueVars, scanVars, producerVars, restVars>>
    \/ \E t \in PoolThreads, outcome \in {"scan", "unreadable", "raise"} :
            /\ SingleStart(t, outcome)
            /\ UNCHANGED <<queueVars, scanVars, producerVars, restVars>>
    \/ \E t \in PoolThreads :
            /\ SingleStartNoScan(t)
            /\ UNCHANGED <<queueVars, scanVars, producerVars, restVars>>
    \/ \E t \in PoolThreads, head \in HeadOutcomes :
            /\ SingleDryRun(t, head)
            /\ UNCHANGED <<queueVars, scanVars, producerVars, restVars>>
    \/ \E t \in PoolThreads :
            /\ SingleScanned(t)
            /\ UNCHANGED <<storeVars, uploadVars, queueVars, scanVars, producerVars, restVars>>
    \/ \E t \in PoolThreads :
            /\ SingleSaved(t)
            /\ UNCHANGED <<queueVars, scanVars, producerVars, restVars>>
    \/ \E t \in PoolThreads, head \in HeadOutcomes :
            /\ CheckDuplicate(t, head)
            /\ UNCHANGED <<queueVars, extraVars>>
    \/ \E t \in PoolThreads :
            /\ NoDuplicateCheck(t)
            /\ UNCHANGED <<queueVars, extraVars>>
    \/ \E t \in PoolThreads, outcome \in BatchPutOutcomes :
            /\ PutAttempt(t, outcome)
            /\ UNCHANGED <<queueVars, extraVars>>
    \/ \E t \in PoolThreads : Backoff(t) /\ UNCHANGED <<queueVars, extraVars>>
    \/ \E t \in PoolThreads :
            /\ SingleReturn(t)
            /\ UNCHANGED <<queueVars, scanVars, producerVars, restVars>>
    \/ \E f \in BatchFiles :
            /\ Collect(f)
            /\ UNCHANGED <<storeVars, uploadVars, queueVars, scanVars, producerVars, restVars>>
    \/ UploadBatchReturn
            /\ UNCHANGED <<storeVars, uploadVars, queueVars, scanVars, producerVars, restVars>>
    \/ MonolithReturn
            /\ UNCHANGED <<storeVars, uploadVars, queueVars, scanVars, producerVars, restVars>>

\* a.csv has 1 byte and Skipped.csv has more; the bucket is empty or
\* holds a 1-byte object at each of the two keys.
InitMonolith ==
    /\ local_files = [f \in BatchFiles |-> IF f = "a.csv" THEN 1 ELSE MaxSize]
    /\ \E present \in {{}, BatchKeys} : s3_objects = [k \in present |-> 1]
    /\ InitUpload
    /\ InitQueue
    /\ InitDetector
    /\ \E options \in [skip_duplicates : BOOLEAN, overwrite : BOOLEAN,
                        dry_run : BOOLEAN] :
            InitBatchWith(options)
    /\ InitProducer
    /\ InitApi
    /\ InitRun
    /\ InitLoader
    /\ traced = {}
    /\ drain_once = FALSE

SpecBatch == InitMonolith /\ [][NextBatch]_vars

\* ---------------------------------------------------- producer claims

\* What the monolith hands to the Uploader for a discovered file: the
\* path, with the bucket and the key upload_single computes for it.
MonolithJob(path, scope) ==
    [path |-> path, scope |-> scope,
     s3_key |-> build_s3_key(scope, path.name, get_prefix(scope)),
     bucket |-> get_bucket(scope)]

\* enqueue_files has returned and run_monolith has its list of files.
BothDiscovered == ppc = "returned" /\ mpc \in {"uploader", "no_files"}

\* C20 as stated: for the same directory, scope and filters the producer
\* enqueues one job per file the monolith hands to the Uploader, with the
\* bucket and key the monolith uses, and returns that number.
C20_ProducerEqualsMonolith ==
    BothDiscovered
        => /\ job_count = Len(files)
           /\ Len(queue) = Len(files)
           /\ {queue[i] : i \in 1..Len(queue)}
                 = {MonolithJob(files[i], cli_args.scope) : i \in 1..Len(files)}

\* C21: when the input path is missing or is not a directory, the
\* monolith goes from discovery straight to its error return with exit
\* code 1 and never has an Uploader, and the producer goes straight to
\* its error return; no job is enqueued and no thread has made a HEAD or
\* a PUT.
C21_DiscoveryFailsFast ==
    tree.root \in {"file", "missing"}
        => /\ mpc \in {"start", "error"}
           /\ mpc = "error" => exit_code = 1
           /\ files = <<>>
           /\ ppc \in {"start", "error"}
           /\ queue = <<>> /\ total_put = 0 /\ job_count = 0
           /\ \A t \in Threads :
                 pc[t] = "idle" /\ puts[t] = <<>> /\ ~seen[t].looked

\* Both runs have ended in failure on an input path that is a plain file.
C21_Witness ==
    /\ tree.root = "file"
    /\ mpc = "error"
    /\ exit_code = 1
    /\ ppc = "error"
    /\ queue = <<>>

\* The producer and the monolith on one input directory and one command
\* line, each discovering the files in its own way.
NextProducer ==
    \/ \E listing \in UNION {Orderings(S) : S \in SUBSET TreePaths} :
            /\ EnqueueDiscover(listing)
            /\ UNCHANGED <<storeVars, uploadVars, queueVars, scanVars, batchVars, restVars>>
    \/ EnqueueJob /\ UNCHANGED <<storeVars, uploadVars, scanVars, batchVars, restVars>>
    \/ EnqueueReturn
            /\ UNCHANGED <<storeVars, uploadVars, queueVars, scanVars, batchVars, restVars>>
    \/ \E listing \in UNION {Orderings(S) : S \in SUBSET TreePaths} :
            /\ DiscoverInScope(listing)
            /\ UNCHANGED <<storeVars, uploadVars, queueVars, scanVars,
                           producerVars, restVars>>

InitEnqueue ==
    /\ local_files = [f \in Files |-> 1]
    /\ s3_objects = <<>>
    /\ InitUpload
    /\ InitQueue
    /\ InitDetector
    /\ InitBatch
    /\ \E directory \in Trees,
          arguments \in [scope : ScopeDirs, include : ExtensionArgs,
                         exclude : ExtensionArgs] :
            InitProducerWith(directory, arguments)
    /\ InitApi
    /\ InitRun
    /\ InitLoader
    /\ traced = {}
    /\ drain_once = FALSE

SpecProducer == InitEnqueue /\ [][NextProducer]_vars

====
